---------------------------- MODULE Spec2Model ----------------------------
(***************************************************************************)
(* A model of the DOI recognizer of flowref (src/core/doi.ts) and of its   *)
(* citation formatters (src/core/formatters).                              *)
(*                                                                         *)
(* JavaScript strings are TLA+ strings; a character is a string of length  *)
(* one (SubSeq(s, i, i)).  Every regular expression of the source is an    *)
(* operator that computes what the JavaScript engine computes for it:      *)
(* leftmost match, greedy quantifiers, case-insensitivity where the /i     *)
(* flag is set.  The exported functions are pure; the state of the model   *)
(* is the call in progress: which function was called (op), its argument   *)
(* (arg), what it returned (ret), and for fetchDOIFromURL, which is        *)
(* asynchronous, the point it has reached (pc) and what the network        *)
(* delivered (env).                                                         *)
(***************************************************************************)
EXTENDS Integers, Sequences, FiniteSets, TLC

VARIABLES
    op,     \* the function of doi.ts that was called, "none" before any call
    arg,    \* its argument, a record
    ret,    \* what it returned, a record: [doi], [valid], [dois],
            \* [dois, source], or the promise [state, value] of fetchDOIFromURL
    arg2,   \* the argument of a second call of normalizeDOI after the first
    ret2,   \* what the second call returned (PENDING before it)
    pc,     \* fetchDOIFromURL: the await it is suspended at
    env     \* fetchDOIFromURL: what fetch and the HTML parser delivered

vars == <<op, arg, ret, arg2, ret2, pc, env>>

(***************************************************************************)
(* Bounds of the model.                                                    *)
(***************************************************************************)
MaxWsPos == 12     \* whitespace is inserted after character 1..MaxWsPos of the DOI part
MaxWords == 3      \* words of a body text
MaxMetas == 2      \* <meta> elements of a document given to detectDOIsFromMetaTags
MaxScripts == 2    \* JSON-LD <script> elements of a fetched page
MaxAuthors == 22   \* authors of one kind in a list given to a formatter
MaxMixed == 3      \* authors of a list in which every author is of any kind

(***************************************************************************)
(* Characters and strings.                                                 *)
(***************************************************************************)
NULL == "null"          \* JavaScript null; no DOI equals it (a DOI starts with "10.")
PENDING == "pending"    \* not returned yet

Char(s, i) == SubSeq(s, i, i)

Digits == {"0", "1", "2", "3", "4", "5", "6", "7", "8", "9"}

UpperLetters == "ABCDEFGHIJKLMNOPQRSTUVWXYZ"
LowerLetters == "abcdefghijklmnopqrstuvwxyz"
UpperSet == {Char(UpperLetters, i) : i \in 1..26}
LowerSet == {Char(LowerLetters, i) : i \in 1..26}

\* \w of a JavaScript regular expression
WordChars == UpperSet \cup LowerSet \cup Digits \cup {"_"}

\* \s of a JavaScript regular expression (the characters the model uses)
Whitespace == {" ", "\t", "\n", "\r"}

\* the line terminators "." does not match
LineTerminators == {"\n", "\r"}

LowerMap == [c \in UpperSet |->
               Char(LowerLetters, CHOOSE i \in 1..26 : Char(UpperLetters, i) = c)]

toLowerChar(c) == IF c \in UpperSet THEN LowerMap[c] ELSE c

RECURSIVE toLowerCase(_)
toLowerCase(s) ==
    IF s = "" THEN "" ELSE toLowerChar(Head(s)) \o toLowerCase(Tail(s))

Min(S) == CHOOSE x \in S : \A y \in S : x <= y
Max(S) == CHOOSE x \in S : \A y \in S : x >= y

\* the least element of S, d when S is empty
MinOr(S, d) == IF S = {} THEN d ELSE Min(S)

\* a when it is not null, else b
OrElse(a, b) == IF a # NULL THEN a ELSE b

\* p occurs in s at position i
StartsAt(s, i, p) ==
    /\ i >= 1
    /\ i + Len(p) - 1 <= Len(s)
    /\ SubSeq(s, i, i + Len(p) - 1) = p

\* p (given in lower case) occurs in s at position i, letter case ignored
StartsAtCI(s, i, p) ==
    /\ i >= 1
    /\ i + Len(p) - 1 <= Len(s)
    /\ toLowerCase(SubSeq(s, i, i + Len(p) - 1)) = p

\* the last position of the longest run of characters of C that starts at i
\* (i - 1 when the character at i is not in C)
SpanIn(s, i, C) ==
    MinOr({k \in i..Len(s) : Char(s, k) \notin C}, Len(s) + 1) - 1

\* the same for the characters not in C
SpanNotIn(s, i, C) ==
    MinOr({k \in i..Len(s) : Char(s, k) \in C}, Len(s) + 1) - 1

\* String.prototype.trim
Between(s, keep) ==
    IF keep = {} THEN "" ELSE SubSeq(s, Min(keep), Max(keep))

trim(s) == Between(s, {k \in 1..Len(s) : Char(s, k) \notin Whitespace})

(***************************************************************************)
(* normalizeDOI                                                            *)
(***************************************************************************)

\* 10\.\d{4,9}\/ at position j: the position of its "/", 0 when it does not
\* match.  \d{4,9} is greedy and is followed by "/", so the whole run of
\* digits after "10." is taken and has to be 4 to 9 long.
DoiHeadEnd(s, j, e) ==
    IF e - (j + 3) + 1 >= 4 /\ e - (j + 3) + 1 <= 9 /\ StartsAt(s, e + 1, "/")
    THEN e + 1 ELSE 0

DoiHead(s, j) ==
    IF ~StartsAt(s, j, "10.") THEN 0
    ELSE DoiHeadEnd(s, j, SpanIn(s, j + 3, Digits))   \* e: the last digit

\* (?:doi\.org\/|\/doi\/(?:full\/|abs\/)?) at position i, /i: the position
\* after it, 0 when it does not match
UrlLead(s, i) ==
    IF StartsAtCI(s, i, "doi.org/") THEN i + 8
    ELSE IF StartsAtCI(s, i, "/doi/")
         THEN IF StartsAtCI(s, i + 5, "full/") THEN i + 10
              ELSE IF StartsAtCI(s, i + 5, "abs/") THEN i + 9
              ELSE i + 5
         ELSE 0

UrlStop == Whitespace \cup {"?", "#"}

\* 10\.\d{4,9}\/ and one character that is not in Stop match at position j,
\* the "/" being at position h
HeadAndOne(s, h, Stop) ==
    h # 0 /\ h < Len(s) /\ Char(s, h + 1) \notin Stop

\* the match of 10\.\d{4,9}\/[^Stop]+ that starts at position j
HeadAndRun(s, j, Stop) ==
    SubSeq(s, j, SpanNotIn(s, DoiHead(s, j) + 1, Stop))

\* the group (10\.\d{4,9}\/[^\s?#]+) matches at position j (0: the lead did not)
UrlGroupAt(s, j) ==
    j # 0 /\ HeadAndOne(s, DoiHead(s, j), UrlStop)

\* the whole pattern of line 42 matches at position i
UrlDoiAt(s, i) == UrlGroupAt(s, UrlLead(s, i))

\* group 1 of the match at position i, NULL when i is 0
UrlGroup(s, i) ==
    IF i = 0 THEN NULL ELSE HeadAndRun(s, UrlLead(s, i), UrlStop)

\* normalized.match(/(?:doi\.org\/|\/doi\/(?:full\/|abs\/)?)(10\.\d{4,9}\/[^\s?#]+)/i):
\* group 1 of the leftmost match, NULL when there is none
urlDoiMatch(s) ==
    UrlGroup(s, MinOr({i \in 1..Len(s) : UrlDoiAt(s, i)}, 0))

\* replace(/^https?:\/\/(dx\.)?doi\.org\//i, "")
\* ^https?:\/\/ : the position after it, 0 when it does not match
SchemeEnd(s) ==
    IF StartsAtCI(s, 1, "https://") THEN 9
    ELSE IF StartsAtCI(s, 1, "http://") THEN 8 ELSE 0

\* (dx\.)?doi\.org\/ at position a: the position after it, 0 when it does not match
DoiOrgEnd(s, a) ==
    IF a = 0 THEN 0
    ELSE IF StartsAtCI(s, a, "dx.doi.org/") THEN a + 11
    ELSE IF StartsAtCI(s, a, "doi.org/") THEN a + 8
    ELSE 0

\* s from position i on, s itself when i is 0
FromOrAll(s, i) == IF i = 0 THEN s ELSE SubSeq(s, i, Len(s))

StripDoiOrg(s) == FromOrAll(s, DoiOrgEnd(s, SchemeEnd(s)))

\* replace(/^doi:\s*/i, "")
StripDoiColon(s) ==
    IF StartsAtCI(s, 1, "doi:")
    THEN SubSeq(s, SpanIn(s, 5, Whitespace) + 1, Len(s)) ELSE s

\* replace(/\s+/g, "")
RECURSIVE RemoveWhitespace(_)
RemoveWhitespace(s) ==
    IF s = "" THEN ""
    ELSE (IF Head(s) \in Whitespace THEN "" ELSE Head(s)) \o RemoveWhitespace(Tail(s))

\* s with the text from position i to the end of its line removed: what
\* replace does with a pattern that ends in ".*" and matches at i
CutLineFrom(s, i) ==
    SubSeq(s, 1, i - 1) \o SubSeq(s, SpanNotIn(s, i, LineTerminators) + 1, Len(s))

\* replace(/www\..*/i, "")
CutWww(s) ==
    CutLineFrom(s, MinOr({i \in 1..Len(s) : StartsAtCI(s, i, "www.")}, Len(s) + 1))

\* replace(/https?:\/\/.*/i, "")
CutHttp(s) ==
    CutLineFrom(s, MinOr({i \in 1..Len(s) : \/ StartsAtCI(s, i, "http://")
                                            \/ StartsAtCI(s, i, "https://")},
                         Len(s) + 1))

TrailingPunct == {".", ",", ";", ")", "]", "}", ">"}
LeadingPunct == {".", ",", ";", "(", "[", "{", "<"}

\* replace(/[.,;)\]}>]+$/, "")
UpTo(s, keep) == IF keep = {} THEN "" ELSE SubSeq(s, 1, Max(keep))

StripTrailing(s) == UpTo(s, {k \in 1..Len(s) : Char(s, k) \notin TrailingPunct})

\* replace(/^[.,;(\[{<]+/, "")
StripLeading(s) ==
    SubSeq(s, SpanIn(s, 1, LeadingPunct) + 1, Len(s))

MinDoiLength == 15

\* /^10\.\d{4,9}\/.{5,}/.test(s)
FiveAfter(s, h) ==
    /\ h # 0
    /\ Len(s) - h >= 5
    /\ \A k \in (h + 1)..(h + 5) : Char(s, k) \notin LineTerminators

MatchesDoiPattern(s) == FiveAfter(s, DoiHead(s, 1))

\* PassesValidation as it would be without the floor on the length
PassesValidationWithoutLength(s) == MatchesDoiPattern(s)

\* the test of line 69, negated: the string is returned
PassesValidation(s) ==
    MatchesDoiPattern(s) /\ Len(s) >= MinDoiLength

\* lines 42-49: the DOI of a URL, or else the string without its prefix
ExtractOrStripPrefix(s) ==
    OrElse(urlDoiMatch(s), StripDoiColon(StripDoiOrg(s)))

\* lines 69-73
Validated(normalized) ==
    IF PassesValidation(normalized) THEN normalized ELSE NULL

normalizeDOI(doi) ==
    IF doi = "" THEN NULL
    ELSE Validated(StripLeading(StripTrailing(CutHttp(CutWww(
             RemoveWhitespace(ExtractOrStripPrefix(trim(doi))))))))

isValidDOI(doi) ==
    IF doi = "" THEN FALSE ELSE normalizeDOI(doi) # NULL

(***************************************************************************)
(* detectDOIsFromText                                                      *)
(***************************************************************************)

Range(seq) == {seq[i] : i \in 1..Len(seq)}

\* dois.includes(d)
includes(dois, d) == d \in Range(dois)

\* dois.some(x => x.toLowerCase() === d.toLowerCase())
includesIgnoringCase(dois, d) ==
    \E i \in 1..Len(dois) : toLowerCase(dois[i]) = toLowerCase(d)

StrictStop == Whitespace \cup {"\"", "'", "<", ">"}

\* DOI_REGEX, /\b(10\.\d{4,9}\/[^\s"'<>]+)/gi, matches at position p
DoiRegexAt(text, p) ==
    /\ p = 1 \/ Char(text, p - 1) \notin WordChars
    /\ HeadAndOne(text, DoiHead(text, p), StrictStop)

\* text.matchAll(DOI_REGEX) from position from on: group 1 of every match,
\* each match starting where the previous one ended
RECURSIVE matchAllDoiRegex(_, _)
RECURSIVE DoiRegexMatchesFrom(_, _)

\* the match at position p and those after it; none when p is 0
DoiRegexMatchesFrom(text, p) ==
    IF p = 0 THEN <<>>
    ELSE <<HeadAndRun(text, p, StrictStop)>>
         \o matchAllDoiRegex(text, p + Len(HeadAndRun(text, p, StrictStop)))

matchAllDoiRegex(text, from) ==
    DoiRegexMatchesFrom(text, MinOr({p \in from..Len(text) : DoiRegexAt(text, p)}, 0))

\* [\w\-\.\(\)\/\s]
AggressiveClass == WordChars \cup Whitespace \cup {"-", ".", "(", ")", "/"}
MinAggressiveRun == 3
MaxAggressiveRun == 100

\* (?:doi:\s*)? at position p: where 10\. has to start
AggressiveHeadStart(text, p) ==
    IF StartsAtCI(text, p, "doi:") THEN SpanIn(text, p + 4, Whitespace) + 1 ELSE p

\* the last position of the match of aggressivePattern at p, 0 when it does
\* not match there
\* [\w\-\.\(\)\/\s]{3,100} after the "/" at position h, the run of
\* characters of the class ending at position e: the last position matched,
\* 0 when there is no match
AggressiveRunEnd(h, e) ==
    IF h = 0 \/ e - h < MinAggressiveRun THEN 0
    ELSE IF e - h > MaxAggressiveRun THEN h + MaxAggressiveRun ELSE e

AggressiveFromHead(text, h) ==
    AggressiveRunEnd(h, SpanIn(text, h + 1, AggressiveClass))

\* the last position of the match of aggressivePattern at p, 0 when it does
\* not match there
AggressiveEnd(text, p) ==
    AggressiveFromHead(text, DoiHead(text, AggressiveHeadStart(text, p)))

\* text.matchAll(aggressivePattern) from position from on: match[0] of every match
RECURSIVE matchAllAggressive(_, _)
RECURSIVE AggressiveMatchesFrom(_, _)

\* the match at position p and those after it; none when p is 0
AggressiveMatchesFrom(text, p) ==
    IF p = 0 THEN <<>>
    ELSE <<SubSeq(text, p, AggressiveEnd(text, p))>>
         \o matchAllAggressive(text, AggressiveEnd(text, p) + 1)

matchAllAggressive(text, from) ==
    AggressiveMatchesFrom(text,
        MinOr({p \in from..Len(text) : AggressiveEnd(text, p) # 0}, 0))

\* the loops of lines 85-92, 97-104 and 119-124: each candidate is normalized
\* and pushed unless null or already included
\* if (normalized && !dois.includes(normalized)) dois.push(normalized)
pushIfNew(dois, normalized) ==
    IF normalized # NULL /\ ~includes(dois, normalized)
    THEN Append(dois, normalized) ELSE dois

RECURSIVE pushNormalized(_, _)
pushNormalized(dois, candidates) ==
    IF candidates = <<>> THEN dois
    ELSE pushNormalized(pushIfNew(dois, normalizeDOI(Head(candidates))),
                        Tail(candidates))

\* the loop of lines 132-138: the same with the case-insensitive test
\* if (normalized && !dois.some(...)) dois.push(normalized)
pushIfNewIgnoringCase(dois, normalized) ==
    IF normalized # NULL /\ ~includesIgnoringCase(dois, normalized)
    THEN Append(dois, normalized) ELSE dois

RECURSIVE pushNormalizedIgnoringCase(_, _)
pushNormalizedIgnoringCase(dois, candidates) ==
    IF candidates = <<>> THEN dois
    ELSE pushNormalizedIgnoringCase(
             pushIfNewIgnoringCase(dois, normalizeDOI(Head(candidates))),
             Tail(candidates))

detectDOIsFromText(text) ==
    pushNormalizedIgnoringCase(
        pushNormalized(<<>>, matchAllDoiRegex(text, 1)),
        matchAllAggressive(text, 1))

(***************************************************************************)
(* detectDOIsFromMetaTags and detectDOIsFromDocument.  A document is       *)
(* [metas, scripts, body]: its <meta> elements in document order, each     *)
(* [name, property, content] with NoAttr for an attribute it does not      *)
(* have, its JSON-LD scripts, and the text of its body.                    *)
(***************************************************************************)
NoAttr == ""

DOI_META_TAGS ==
    << "citation_doi", "dc.identifier", "dc.Identifier", "DC.identifier",
       "DC.Identifier", "prism.doi", "bepress_citation_doi", "rft.id" >>

\* querySelectorAll(`meta[attr="tagName"]`), in document order, and of each
\* element the content attribute when it is not empty
RECURSIVE SelectContents(_, _, _)
SelectContents(metas, attr, tagName) ==
    IF metas = <<>> THEN <<>>
    ELSE (IF Head(metas)[attr] = tagName /\ Head(metas).content # ""
          THEN <<Head(metas).content>> ELSE <<>>)
         \o SelectContents(Tail(metas), attr, tagName)

\* the contents the loop of lines 82-106 visits, in the order it visits them:
\* for each tag name, the meta[name=...] elements, then the meta[property=...]
RECURSIVE VisitedContents(_, _)
VisitedContents(metas, tags) ==
    IF tags = <<>> THEN <<>>
    ELSE SelectContents(metas, "name", Head(tags))
         \o SelectContents(metas, "property", Head(tags))
         \o VisitedContents(metas, Tail(tags))

\* the contents of the elements that carry a tag of DOI_META_TAGS, as name= or
\* as property=, in document order
RECURSIVE ContentsInDocumentOrder(_)
ContentsInDocumentOrder(metas) ==
    IF metas = <<>> THEN <<>>
    ELSE (IF \/ Head(metas).name \in Range(DOI_META_TAGS)
             \/ Head(metas).property \in Range(DOI_META_TAGS)
          THEN <<Head(metas).content>> ELSE <<>>)
         \o ContentsInDocumentOrder(Tail(metas))

\* detectDOIsFromMetaTags as it would be with one pass over the document
detectDOIsFromMetaTagsInDocumentOrder(document) ==
    pushNormalized(<<>>, ContentsInDocumentOrder(document.metas))

detectDOIsFromMetaTags(document) ==
    pushNormalized(<<>>, VisitedContents(document.metas, DOI_META_TAGS))

\* lines 152-166, metaDOIs being what detectDOIsFromMetaTags returned
MetaOrRegex(metaDOIs, document) ==
    IF Len(metaDOIs) > 0
    THEN [dois |-> metaDOIs, source |-> "meta-tag"]
    ELSE [dois |-> detectDOIsFromText(document.body), source |-> "regex"]

\* detectDOIsFromDocument as it would be if it added the DOIs of the body
\* text to those of the meta tags
detectDOIsFromDocumentMixed(document) ==
    [dois |-> pushNormalized(detectDOIsFromMetaTags(document),
                             detectDOIsFromText(document.body)),
     source |-> IF Len(detectDOIsFromMetaTags(document)) > 0
                THEN "meta-tag" ELSE "regex"]

detectDOIsFromDocument(document) ==
    MetaOrRegex(detectDOIsFromMetaTags(document), document)

(***************************************************************************)
(* fetchDOIFromURL.  A JSON-LD script is [valid, identifier, id, doi]:     *)
(* whether JSON.parse accepts its text, and the values of the fields       *)
(* identifier, @id and doi of the parsed object (ABSENT when undefined).   *)
(***************************************************************************)
ABSENT == ""

hasUrlScheme(trimmed) ==
    \/ StartsAt(trimmed, 1, "http://")
    \/ StartsAt(trimmed, 1, "https://")
    \/ StartsAt(trimmed, 1, "www.")

isURL(input) ==
    input # "" /\ hasUrlScheme(toLowerCase(trim(input)))

\* lines 230-233
withProtocol(fullUrl) ==
    IF StartsAtCI(fullUrl, 1, "www.") THEN "https://" \o fullUrl ELSE fullUrl

fullUrlOf(url) == withProtocol(trim(url))

\* data.identifier || data['@id'] || data.doi
jsonLdIdentifier(data) ==
    IF data.identifier # ABSENT THEN data.identifier
    ELSE IF data.id # ABSENT THEN data.id
    ELSE data.doi

\* lines 271-278: the DOI of one script, NULL when its text is no JSON, it
\* has no identifier, or the identifier does not normalize
jsonLdDOI(data) ==
    IF data.valid /\ jsonLdIdentifier(data) # ABSENT
    THEN normalizeDOI(jsonLdIdentifier(data)) ELSE NULL

\* the loop of lines 269-282: the first script whose identifier normalizes
RECURSIVE scanJsonLd(_)
scanJsonLd(scripts) ==
    IF scripts = <<>> THEN NULL
    ELSE OrElse(jsonLdDOI(Head(scripts)), scanJsonLd(Tail(scripts)))

\* dois[0], NULL when the list is empty
firstOf(dois) == IF Len(dois) > 0 THEN dois[1] ELSE NULL

\* lines 255-291: what is returned once the page is parsed
detectInPage(fullUrl, doc) ==
    OrElse(firstOf(detectDOIsFromMetaTags(doc)),
    OrElse(normalizeDOI(fullUrl),
    OrElse(scanJsonLd(doc.scripts),
           firstOf(detectDOIsFromText(doc.body)))))

\* how the promise of an async function settles
Resolved(v) == [state |-> "resolved", value |-> v]
Unsettled == [state |-> "pending", value |-> NULL]

\* lines 292-295: the catch block of fetchDOIFromURL
catchError == Resolved(NULL)

\* line 246: the response is not OK
notOkResponse == Resolved(NULL)

(***************************************************************************)
(* The inputs of the model.                                                *)
(***************************************************************************)

\* what precedes the DOI in an input of normalizeDOI
Prefixes ==
    { "", "doi:", "doi: ", "https://doi.org/", "http://dx.doi.org/",
      "https://www.pnas.org/doi/full/", "(" }

\* the DOI part: complete DOIs, truncated ones, one with a malformed
\* registrant, and none at all
Cores ==
    { "10.1038/nphys1170", "10.1016/j.neuron.2010.09.025", "10.1000/XYZ12345",
      "10.1016/S1", "10.1234/abcde", "10.123/abcdefgh",
      "10.1234/x/doi/10.5678/abcdefgh", "10.1234/www.abcdefgh", "" }

\* what follows it
Suffixes ==
    { "", ".", ").", "?x=1", "#sec", "www.nature.com", "https://x.org", " " }

\* the whitespace a PDF text extraction leaves inside a line-wrapped DOI
WrapChars == {" ", "\t", "\n"}

InsertAt(s, k, w) == SubSeq(s, 1, k) \o w \o SubSeq(s, k + 1, Len(s))

RECURSIVE Join(_, _)
Join(words, sep) ==
    IF words = <<>> THEN ""
    ELSE IF Len(words) = 1 THEN words[1]
    ELSE words[1] \o sep \o Join(Tail(words), sep)

SeqsUpTo(S, n) == UNION {[1..k -> S] : k \in 0..n}

\* the words of a body text: ordinary words, a DOI, the same DOI followed by
\* a comma and in another letter case, and an identifier too short to be valid
OrdinaryWords == {"See", "and"}
TextWords ==
    OrdinaryWords
    \cup {"10.1000/xyz123", "10.1000/xyz12345", "10.1000/xyz12345,", "10.1000/XYZ12345"}

SpecExampleWords == <<"See", "DOI", "10.1000/xyz123", "and", "10.1000/xyz123", "again">>

\* the texts given to detectDOIsFromText, as their words
Texts == SeqsUpTo(TextWords, MaxWords) \cup {SpecExampleWords}

\* <meta> elements: tags of DOI_META_TAGS and one that is not, as name= or
\* as property=, with contents that normalize to two DOIs, to the first in
\* another letter case, and to nothing
MetaNames == {"citation_doi", "rft.id", "description"}
MetaProperties == {NoAttr, "citation_doi"}
MetaContents ==
    { "10.1038/nphys1170", "doi:10.1038/NPHYS1170",
      "https://doi.org/10.1000/xyz12345", "10.1016/S1" }

MetaElements ==
    [name : MetaNames, property : MetaProperties, content : MetaContents]

DocumentOf(metas, scripts, body) ==
    [metas |-> metas, scripts |-> scripts, body |-> body]

\* the documents given to detectDOIsFromDocument
BodyTexts == {"", "no identifier here", "Cited as 10.1000/xyz12345, see 10.1000/XYZ12345"}

\* the pages fetchDOIFromURL may be served
FetchUrls ==
    { "https://example.org/article", "https://www.pnas.org/doi/full/10.2222/url.000001",
      "www.example.org/article", "ftp://example.org/article" }
PageMetas ==
    { <<>>, <<[name |-> "citation_doi", property |-> NoAttr, content |-> "10.1111/meta.00001"]>> }
PageBodies == {"", "Cited as 10.6666/body.00001, see there"}
JsonLdScripts ==
    [valid : {TRUE}, identifier : {ABSENT, "ISSN 1234-5678", "10.3333/ident.0001"},
     id : {ABSENT, "https://doi.org/10.4444/atid.00001"},
     doi : {ABSENT, "10.5555/doifield.1"}]
    \cup {[valid |-> FALSE, identifier |-> ABSENT, id |-> ABSENT, doi |-> ABSENT]}
Pages ==
    {DocumentOf(m, s, b) : m \in PageMetas, s \in SeqsUpTo(JsonLdScripts, MaxScripts),
                           b \in PageBodies}

(***************************************************************************)
(* The state machine: one call of an exported function from the idle       *)
(* state, the calls that follow it, and the steps of fetchDOIFromURL.      *)
(***************************************************************************)
NoCall == [kind |-> "none", input |-> ""]
NoArg == [kind |-> "none"]
NoResult == [kind |-> "none"]
NoEnv == [fetch |-> "none", parse |-> "none"]

Init ==
    /\ op = "none"
    /\ arg = NoArg
    /\ ret = NoResult
    /\ arg2 = NoCall
    /\ ret2 = PENDING
    /\ pc = "idle"
    /\ env = NoEnv

\* normalizeDOI(pre + core + suf)
CallNormalizeDOI ==
    /\ op = "none"
    /\ \E pre \in Prefixes, core \in Cores, suf \in Suffixes :
            /\ op' = "normalizeDOI"
            /\ arg' = [input |-> pre \o core \o suf,
                       doiFrom |-> Len(pre) + 1, doiTo |-> Len(pre) + Len(core)]
            /\ ret' = [doi |-> normalizeDOI(pre \o core \o suf)]
            /\ UNCHANGED <<arg2, ret2, pc, env>>

\* normalizeDOI applied to what normalizeDOI returned
CallNormalizeDOIOnResult ==
    /\ op = "normalizeDOI"
    /\ arg2 = NoCall
    /\ ret.doi # NULL
    /\ arg2' = [kind |-> "result", input |-> ret.doi]
    /\ ret2' = normalizeDOI(ret.doi)
    /\ UNCHANGED <<op, arg, ret, pc, env>>

\* normalizeDOI applied to the same input with whitespace inside its DOI part
CallNormalizeDOIOnWrapped ==
    /\ op = "normalizeDOI"
    /\ arg2 = NoCall
    /\ \E k \in 1..MaxWsPos, w \in WrapChars :
            /\ arg.doiFrom + k - 1 < arg.doiTo
            /\ arg2' = [kind |-> "wrapped", input |-> InsertAt(arg.input, arg.doiFrom + k - 1, w)]
            /\ ret2' = normalizeDOI(InsertAt(arg.input, arg.doiFrom + k - 1, w))
            /\ UNCHANGED <<op, arg, ret, pc, env>>

\* isValidDOI(pre + core + suf); ret is [valid |-> the boolean returned]
CallIsValidDOI ==
    /\ op = "none"
    /\ \E pre \in Prefixes, core \in Cores, suf \in Suffixes :
            /\ op' = "isValidDOI"
            /\ arg' = [input |-> pre \o core \o suf,
                       doiFrom |-> Len(pre) + 1, doiTo |-> Len(pre) + Len(core)]
            /\ ret' = [valid |-> isValidDOI(pre \o core \o suf)]
            /\ UNCHANGED <<arg2, ret2, pc, env>>

CallDetectDOIsFromText ==
    /\ op = "none"
    /\ \E words \in Texts :
            /\ op' = "detectDOIsFromText"
            /\ arg' = [words |-> words, text |-> Join(words, " ")]
            /\ ret' = [dois |-> detectDOIsFromText(Join(words, " "))]
            /\ UNCHANGED <<arg2, ret2, pc, env>>

CallDetectDOIsFromMetaTags ==
    /\ op = "none"
    /\ \E metas \in SeqsUpTo(MetaElements, MaxMetas) :
            /\ op' = "detectDOIsFromMetaTags"
            /\ arg' = DocumentOf(metas, <<>>, "")
            /\ ret' = [dois |-> detectDOIsFromMetaTags(DocumentOf(metas, <<>>, ""))]
            /\ UNCHANGED <<arg2, ret2, pc, env>>

CallDetectDOIsFromDocument ==
    /\ op = "none"
    /\ \E metas \in SeqsUpTo(MetaElements, 1), body \in BodyTexts :
            /\ op' = "detectDOIsFromDocument"
            /\ arg' = DocumentOf(metas, <<>>, body)
            /\ ret' = detectDOIsFromDocument(DocumentOf(metas, <<>>, body))
            /\ UNCHANGED <<arg2, ret2, pc, env>>

\* fetchDOIFromURL(url) up to its first await (lines 224-236)
CallFetchDOIFromURL ==
    /\ op = "none"
    /\ \E url \in FetchUrls \cup {""} :
            /\ op' = "fetchDOIFromURL"
            /\ arg' = [url |-> url]
            /\ IF url = "" \/ ~isURL(url)
               THEN pc' = "done" /\ ret' = Resolved(NULL)
               ELSE pc' = "fetch" /\ ret' = Unsettled
            /\ UNCHANGED <<arg2, ret2, env>>

\* await fetch(fullUrl) throws: the network failed (line 236, then 292-295)
FetchRejects ==
    /\ op = "fetchDOIFromURL" /\ pc = "fetch"
    /\ env' = [env EXCEPT !.fetch = "rejected"]
    /\ pc' = "done"
    /\ ret' = catchError
    /\ UNCHANGED <<op, arg, arg2, ret2>>

\* fetch delivers a response that is not OK (lines 244-247)
FetchNotOk ==
    /\ op = "fetchDOIFromURL" /\ pc = "fetch"
    /\ env' = [env EXCEPT !.fetch = "not-ok"]
    /\ pc' = "done"
    /\ ret' = notOkResponse
    /\ UNCHANGED <<op, arg, arg2, ret2>>

\* fetch delivers an OK response; the function awaits response.text() (line 249)
FetchOk ==
    /\ op = "fetchDOIFromURL" /\ pc = "fetch"
    /\ env' = [env EXCEPT !.fetch = "ok"]
    /\ pc' = "text"
    /\ UNCHANGED <<op, arg, ret, arg2, ret2>>

\* reading the body or parsing the HTML throws (lines 249-253, then 292-295)
ParseFails ==
    /\ op = "fetchDOIFromURL" /\ pc = "text"
    /\ env' = [env EXCEPT !.parse = "failed"]
    /\ pc' = "done"
    /\ ret' = catchError
    /\ UNCHANGED <<op, arg, arg2, ret2>>

\* the page is read and parsed, and searched (lines 249-291)
ParseAndDetect ==
    /\ op = "fetchDOIFromURL" /\ pc = "text"
    /\ \E page \in Pages :
            /\ env' = [fetch |-> "ok", parse |-> "ok", doc |-> page]
            /\ pc' = "done"
            /\ ret' = Resolved(detectInPage(fullUrlOf(arg.url), page))
            /\ UNCHANGED <<op, arg, arg2, ret2>>

Next ==
    \/ CallNormalizeDOI
    \/ CallNormalizeDOIOnResult
    \/ CallNormalizeDOIOnWrapped
    \/ CallIsValidDOI
    \/ CallDetectDOIsFromText
    \/ CallDetectDOIsFromMetaTags
    \/ CallDetectDOIsFromDocument
    \/ CallFetchDOIFromURL
    \/ FetchRejects
    \/ FetchNotOk
    \/ FetchOk
    \/ ParseFails
    \/ ParseAndDetect

Spec == Init /\ [][Next]_vars

(***************************************************************************)
(* The citation formatters (src/core/formatters/*.ts) and the string       *)
(* utilities they use (src/core/util.ts).                                  *)
(*                                                                         *)
(* A JavaScript object is a TLA+ record; a property the object does not    *)
(* have is a field the record does not have, and reading it gives          *)
(* UNDEFINED.  A call that raises a TypeError (a property read on          *)
(* undefined) gives the outcome Thrown.                                    *)
(***************************************************************************)
UNDEFINED == "undefined"

\* o[f], undefined when o has no property f (string-valued properties)
Get(o, f) == IF f \in DOMAIN o THEN o[f] ELSE UNDEFINED

\* the truthiness of a string-valued property
Truthy(v) == v # UNDEFINED /\ v # ""

\* a || b on strings
Either(a, b) == IF Truthy(a) THEN a ELSE b

\* the object o without the properties F
Without(o, F) == [f \in DOMAIN o \ F |-> o[f]]

\* array.map(F)
MapSeq(F(_), s) == [i \in 1..Len(s) |-> F(s[i])]

Last(s) == s[Len(s)]
AllButLast(s) == SubSeq(s, 1, Len(s) - 1)

\* s.endsWith(p)
endsWith(s, p) == StartsAt(s, Len(s) - Len(p) + 1, p)

\* s.charAt(0)
FirstChar(s) == IF s = "" THEN "" ELSE Char(s, 1)

UpperMap == [c \in LowerSet |->
               Char(UpperLetters, CHOOSE i \in 1..26 : Char(LowerLetters, i) = c)]

toUpperChar(c) == IF c \in LowerSet THEN UpperMap[c] ELSE c

\* s.replace(/c/g, r) for a single character c
RECURSIVE ReplaceAll(_, _, _)
ReplaceAll(s, c, r) ==
    IF s = "" THEN ""
    ELSE (IF Head(s) = c THEN r ELSE Head(s)) \o ReplaceAll(Tail(s), c, r)

\* s.split(/\s+/): the pieces between the runs of whitespace, empty pieces
\* at the ends included
RECURSIVE splitWs(_)
SplitAt(s, b) ==
    <<SubSeq(s, 1, b - 1)>> \o splitWs(SubSeq(s, SpanIn(s, b, Whitespace) + 1, Len(s)))

splitWs(s) ==
    IF \A k \in 1..Len(s) : Char(s, k) \notin Whitespace
    THEN <<s>>
    ELSE SplitAt(s, Min({k \in 1..Len(s) : Char(s, k) \in Whitespace}))

\* word.charAt(0).toUpperCase() + word.slice(1).toLowerCase()
Capitalize(word) ==
    IF word = "" THEN "" ELSE toUpperChar(Head(word)) \o toLowerCase(Tail(word))

\* word.length >= 2 && word === word.toUpperCase() && /^[A-Z]+$/.test(word)
IsAcronym(word) ==
    Len(word) >= 2 /\ \A k \in 1..Len(word) : Char(word, k) \in UpperSet

SentenceWord(words, index) ==
    IF IsAcronym(words[index]) THEN words[index]
    ELSE IF index = 1 THEN Capitalize(words[index])
    ELSE toLowerCase(words[index])

SentenceWords(words) == [i \in 1..Len(words) |-> SentenceWord(words, i)]

toSentenceCase(text) ==
    IF ~Truthy(text) \/ trim(text) = "" THEN ""
    ELSE Join(SentenceWords(splitWs(trim(text))), " ")

minorWords ==
    {"a", "an", "and", "as", "at", "but", "by", "for", "in",
     "nor", "of", "on", "or", "the", "to", "up", "yet"}

TitleWord(words, index) ==
    IF index = 1 \/ index = Len(words) THEN Capitalize(words[index])
    ELSE IF toLowerCase(words[index]) \in minorWords THEN toLowerCase(words[index])
    ELSE Capitalize(words[index])

TitleWords(words) == [i \in 1..Len(words) |-> TitleWord(words, i)]

toTitleCase(text) ==
    IF ~Truthy(text) \/ trim(text) = "" THEN ""
    ELSE Join(TitleWords(splitWs(trim(text))), " ")

\* one part of a given name as its initial: periods removed, nothing when
\* nothing is left, else the first character in upper case and "."
Initial(name) ==
    IF ReplaceAll(name, ".", "") = "" THEN ""
    ELSE toUpperChar(Head(ReplaceAll(name, ".", ""))) \o "."

NonEmpty(s) == s # ""

formatInitials(givenName) ==
    IF ~Truthy(givenName) THEN ""
    ELSE Join(SelectSeq(MapSeq(Initial, splitWs(givenName)), NonEmpty), " ")

(***************************************************************************)
(* Author lists.  The formatters are handed `authors`, which may be        *)
(* undefined: the model hands them the object that holds it.               *)
(***************************************************************************)
\* !authors || authors.length === 0
noAuthors(o) == "authors" \notin DOMAIN o \/ Len(o.authors) = 0

HasBothNames(author) == Truthy(Get(author, "family")) /\ Truthy(Get(author, "given"))

\* NameOr without its branch for the full name
NameOrFamilyOnly(author, marker) ==
    IF Truthy(Get(author, "family")) THEN author.family ELSE marker

\* the branches every formatAuthor shares: family, else full, else the marker
NameOr(author, marker) ==
    IF Truthy(Get(author, "family")) THEN author.family
    ELSE IF Truthy(Get(author, "full")) THEN author.full
    ELSE marker

formatAuthorAPA(author) ==
    IF HasBothNames(author)
    THEN author.family \o ", " \o formatInitials(author.given)
    ELSE NameOr(author, "[Unknown]")

\* formatFirstAuthor of mla.ts and chicago.ts
formatFirstAuthor(author) ==
    IF HasBothNames(author)
    THEN author.family \o ", " \o author.given
    ELSE NameOr(author, "[Unknown]")

\* formatOtherAuthor of mla.ts and chicago.ts
formatOtherAuthor(author) ==
    IF HasBothNames(author)
    THEN author.given \o " " \o author.family
    ELSE NameOr(author, "[Unknown]")

BareInitial(name) == toUpperChar(FirstChar(name))

formatAuthorVancouver(author) ==
    IF HasBothNames(author)
    THEN author.family \o " " \o Join(MapSeq(BareInitial, splitWs(author.given)), "")
    ELSE NameOr(author, "[Unknown]")

DottedInitial(name) == toUpperChar(FirstChar(name)) \o "."

formatAuthorIEEE(author) ==
    IF HasBothNames(author)
    THEN Join(MapSeq(DottedInitial, splitWs(author.given)), " ") \o " " \o author.family
    ELSE NameOr(author, "[Unknown]")

\* the list lengths the truncation rules compare with
ApaMaxListed == 20
ApaFirstShown == 19
ChicagoMaxListed == 10
ChicagoFirstShown == 7
VancouverMaxListed == 6
IeeeMaxListed == 6

formatAuthorsAPA(o) ==
    IF noAuthors(o) THEN "[No author]"
    ELSE IF Len(o.authors) = 1 THEN formatAuthorAPA(o.authors[1])
    ELSE IF Len(o.authors) = 2
    THEN formatAuthorAPA(o.authors[1]) \o ", & " \o formatAuthorAPA(o.authors[2])
    ELSE IF Len(o.authors) <= ApaMaxListed
    THEN Join(AllButLast(MapSeq(formatAuthorAPA, o.authors)), ", ")
            \o ", & " \o Last(MapSeq(formatAuthorAPA, o.authors))
    ELSE Join(MapSeq(formatAuthorAPA, SubSeq(o.authors, 1, ApaFirstShown)), ", ")
            \o ", ... " \o formatAuthorAPA(Last(o.authors))

formatAuthorsMLA(o) ==
    IF noAuthors(o) THEN "[No author]"
    ELSE IF Len(o.authors) = 1 THEN formatFirstAuthor(o.authors[1])
    ELSE IF Len(o.authors) = 2
    THEN formatFirstAuthor(o.authors[1]) \o ", and " \o formatOtherAuthor(o.authors[2])
    ELSE formatFirstAuthor(o.authors[1]) \o ", et al"

\* formatAuthorsChicago without its branch for more than ChicagoMaxListed authors
formatAuthorsChicagoListingAll(o) ==
    IF noAuthors(o) THEN "[No author]"
    ELSE IF Len(o.authors) = 1 THEN formatFirstAuthor(o.authors[1])
    ELSE IF Len(o.authors) = 2
    THEN formatFirstAuthor(o.authors[1]) \o ", and " \o formatOtherAuthor(o.authors[2])
    ELSE formatFirstAuthor(o.authors[1]) \o ", "
            \o Join(MapSeq(formatOtherAuthor, SubSeq(o.authors, 2, Len(o.authors) - 1)), ", ")
            \o ", and " \o formatOtherAuthor(Last(o.authors))

formatAuthorsChicago(o) ==
    IF noAuthors(o) THEN "[No author]"
    ELSE IF Len(o.authors) = 1 THEN formatFirstAuthor(o.authors[1])
    ELSE IF Len(o.authors) = 2
    THEN formatFirstAuthor(o.authors[1]) \o ", and " \o formatOtherAuthor(o.authors[2])
    ELSE IF Len(o.authors) <= ChicagoMaxListed
    THEN formatFirstAuthor(o.authors[1]) \o ", "
            \o Join(MapSeq(formatOtherAuthor, SubSeq(o.authors, 2, Len(o.authors) - 1)), ", ")
            \o ", and " \o formatOtherAuthor(Last(o.authors))
    ELSE Join(<<formatFirstAuthor(o.authors[1])>>
                \o MapSeq(formatOtherAuthor, SubSeq(o.authors, 2, ChicagoFirstShown)), ", ")
            \o ", et al"

formatAuthorsVancouver(o) ==
    IF noAuthors(o) THEN "[No author]"
    ELSE IF Len(o.authors) <= VancouverMaxListed
    THEN Join(MapSeq(formatAuthorVancouver, o.authors), ", ")
    ELSE Join(MapSeq(formatAuthorVancouver, SubSeq(o.authors, 1, VancouverMaxListed)), ", ")
            \o ", et al"

formatAuthorsIEEE(o) ==
    IF noAuthors(o) THEN "[No author]"
    ELSE IF Len(o.authors) = 1 THEN formatAuthorIEEE(o.authors[1])
    ELSE IF Len(o.authors) = 2
    THEN formatAuthorIEEE(o.authors[1]) \o " and " \o formatAuthorIEEE(o.authors[2])
    ELSE IF Len(o.authors) <= IeeeMaxListed
    THEN Join(MapSeq(formatAuthorIEEE, AllButLast(o.authors)), ", ")
            \o ", and " \o formatAuthorIEEE(Last(o.authors))
    ELSE Join(MapSeq(formatAuthorIEEE, SubSeq(o.authors, 1, IeeeMaxListed)), ", ")
            \o ", et al."

(***************************************************************************)
(* formatReference of the five styles.  The parts array of the source is   *)
(* kept beside the text it is joined to.                                   *)
(***************************************************************************)
\* the outcome of a call: a TypeError raised, or the string returned
Thrown == [threw |-> TRUE, parts |-> <<>>, text |-> ""]
Returned(parts, sep) == [threw |-> FALSE, parts |-> parts, text |-> Join(parts, sep)]

\* if (cond) parts.push(part)
Push(cond, part) == IF cond THEN <<part>> ELSE <<>>

\* if (v) s += before + v + after
Piece(v, before, after) == IF Truthy(v) THEN before \o v \o after ELSE ""

\* meta.isEditedWork as a condition
isEditedWork(meta) == "isEditedWork" \in DOMAIN meta /\ meta.isEditedWork

isBook(meta) == Get(meta, "containerType") = "book"

\* edLabel without the singular
edLabelAlwaysPlural(meta, one, many) == many

\* meta.authors.length === 1 ? one : many
edLabel(meta, one, many) == IF Len(meta.authors) = 1 THEN one ELSE many

\* meta.authors.length read when meta.authors is undefined
authorsLengthThrows(meta) == isEditedWork(meta) /\ "authors" \notin DOMAIN meta

\* meta.title.trim() called when meta.title is undefined
titleTrimThrows(meta) == "title" \notin DOMAIN meta

\* `${refNumber}`
NumberToString(n) == ToString(n)

\* ---- APA ----
\* if (!authorPart.endsWith('.')) authorPart += '.'
ensurePeriod(authorPart) ==
    IF endsWith(authorPart, ".") THEN authorPart ELSE authorPart \o "."

\* authorPart.slice(0, -1) + edLabel
replaceLast(authorPart, label) == AllButLast(authorPart) \o label

authorPartAPA(meta) ==
    IF isEditedWork(meta)
    THEN replaceLast(ensurePeriod(formatAuthorsAPA(meta)), edLabel(meta, " (Ed.).", " (Eds.)."))
    ELSE formatAuthorsAPA(meta)

yearPartAPA(meta) == IF Truthy(Get(meta, "year")) THEN "(" \o meta.year \o ")." ELSE "(n.d.)."

\* if (!/[.!?]$/.test(title)) title += "."
withFinalStop(title) ==
    IF title # "" /\ Char(title, Len(title)) \in {".", "!", "?"} THEN title ELSE title \o "."

titleAPA(meta) == withFinalStop(toSentenceCase(Get(meta, "title")))

journalPartAPA(meta) ==
    "<em>" \o toTitleCase(meta.journal) \o "</em>"
        \o Piece(Get(meta, "volume"), ", <em>", "</em>")
        \o Piece(Get(meta, "issue"), "(", ")")
        \o Piece(Get(meta, "pages"), ", ", "")
        \o "."

titleAndContainerAPA(meta) ==
    IF isBook(meta)
    THEN <<"<em>" \o titleAPA(meta) \o "</em>">>
            \o Push(Truthy(Get(meta, "publisher")), Get(meta, "publisher") \o ".")
    ELSE <<titleAPA(meta)>>
            \o Push(Truthy(Get(meta, "journal")), journalPartAPA(meta))

\* identifierAPA with the URL preferred to the DOI
identifierAPAUrlFirst(meta) ==
    IF Truthy(Get(meta, "url")) THEN <<meta.url>>
    ELSE Push(Truthy(Get(meta, "doi")), "https://doi.org/" \o Get(meta, "doi"))

identifierAPA(meta) ==
    IF Truthy(Get(meta, "doi")) THEN <<"https://doi.org/" \o meta.doi>>
    ELSE Push(Truthy(Get(meta, "url")), Get(meta, "url"))

partsAPA(meta) ==
    <<authorPartAPA(meta), yearPartAPA(meta)>>
        \o titleAndContainerAPA(meta) \o identifierAPA(meta)

formatReferenceAPA(meta) ==
    IF authorsLengthThrows(meta) THEN Thrown ELSE Returned(partsAPA(meta), " ")

\* ---- MLA ----
authorPartMLA(meta) ==
    formatAuthorsMLA(meta)
        \o (IF isEditedWork(meta) THEN edLabel(meta, ", editor", ", editors") ELSE "")
        \o "."

\* the title part of mla.ts and chicago.ts
quotedOrItalicTitle(meta) ==
    IF isBook(meta) THEN "<em>" \o trim(meta.title) \o "</em>."
    ELSE "\"" \o trim(meta.title) \o ".\""

journalPartMLA(meta) ==
    "<em>" \o meta.journal \o "</em>"
        \o Piece(Get(meta, "volume"), ", vol. ", "")
        \o Piece(Get(meta, "issue"), ", no. ", "")
        \o Piece(Get(meta, "year"), ", ", "")
        \o Piece(Get(meta, "pages"), ", pp. ", "")
        \o "."

containerMLA(meta) ==
    IF Truthy(Get(meta, "journal")) THEN <<journalPartMLA(meta)>>
    ELSE Push(isBook(meta) /\ Truthy(Get(meta, "publisher")),
              Get(meta, "publisher") \o ", " \o Either(Get(meta, "year"), "n.d.") \o ".")

\* the DOI or URL part of mla.ts and chicago.ts
identifierWithPeriod(meta) ==
    IF Truthy(Get(meta, "doi")) THEN <<"https://doi.org/" \o meta.doi \o ".">>
    ELSE Push(Truthy(Get(meta, "url")), Get(meta, "url") \o ".")

partsMLA(meta) ==
    <<authorPartMLA(meta), quotedOrItalicTitle(meta)>>
        \o containerMLA(meta) \o identifierWithPeriod(meta)

formatReferenceMLA(meta) ==
    IF authorsLengthThrows(meta) \/ titleTrimThrows(meta) THEN Thrown
    ELSE Returned(partsMLA(meta), " ")

\* ---- Chicago ----
authorPartChicago(meta) ==
    formatAuthorsChicago(meta)
        \o (IF isEditedWork(meta) THEN edLabel(meta, ", ed", ", eds") ELSE "")
        \o "."

journalPartChicago(meta) ==
    "<em>" \o meta.journal \o "</em>"
        \o Piece(Get(meta, "volume"), " ", "")
        \o Piece(Get(meta, "issue"), ", no. ", "")
        \o Piece(Get(meta, "year"), " (", ")")
        \o Piece(Get(meta, "pages"), ": ", "")
        \o "."

\* the publisher of a book without journal, with the year after `sep`
\* (chicago.ts, vancouver.ts and ieee.ts)
publisherPart(meta, sep) ==
    IF Truthy(Get(meta, "publisher")) /\ Truthy(Get(meta, "year"))
    THEN <<meta.publisher \o sep \o meta.year \o ".">>
    ELSE Push(Truthy(Get(meta, "publisher")), Get(meta, "publisher") \o ".")

containerChicago(meta) ==
    IF Truthy(Get(meta, "journal")) THEN <<journalPartChicago(meta)>>
    ELSE IF isBook(meta) THEN publisherPart(meta, ", ")
    ELSE <<>>

partsChicago(meta) ==
    <<authorPartChicago(meta), quotedOrItalicTitle(meta)>>
        \o containerChicago(meta) \o identifierWithPeriod(meta)

formatReferenceChicago(meta) ==
    IF authorsLengthThrows(meta) \/ titleTrimThrows(meta) THEN Thrown
    ELSE Returned(partsChicago(meta), " ")

\* ---- Vancouver ----
authorPartVancouver(meta) ==
    formatAuthorsVancouver(meta)
        \o (IF isEditedWork(meta) THEN ", editors" ELSE "")
        \o "."

journalPartVancouver(meta) ==
    meta.journal
        \o Piece(Get(meta, "year"), ". ", "")
        \o Piece(Get(meta, "volume"), ";", "")
        \o Piece(Get(meta, "issue"), "(", ")")
        \o Piece(Get(meta, "pages"), ":", "")
        \o "."

containerVancouver(meta) ==
    IF Truthy(Get(meta, "journal")) THEN <<journalPartVancouver(meta)>>
    ELSE IF isBook(meta) THEN publisherPart(meta, "; ")
    ELSE <<>>

identifierVancouver(meta) ==
    IF Truthy(Get(meta, "doi")) THEN <<"doi: " \o meta.doi>>
    ELSE Push(Truthy(Get(meta, "url")), "Available from: " \o Get(meta, "url"))

partsVancouver(meta, refNumber) ==
    <<NumberToString(refNumber) \o ".", authorPartVancouver(meta), trim(meta.title) \o ".">>
        \o containerVancouver(meta) \o identifierVancouver(meta)

formatReferenceVancouver(meta, refNumber) ==
    IF titleTrimThrows(meta) THEN Thrown
    ELSE Returned(partsVancouver(meta, refNumber), " ")

\* ---- IEEE ----
authorPartIEEE(meta) ==
    formatAuthorsIEEE(meta)
        \o (IF isEditedWork(meta) THEN edLabel(meta, ", Ed.", ", Eds.") ELSE "")
        \o ","

titlePartIEEE(meta) ==
    IF isBook(meta) THEN "<em>" \o trim(meta.title) \o "</em>."
    ELSE "\"" \o trim(meta.title) \o ",\""

journalPartIEEE(meta) ==
    "<em>" \o meta.journal \o "</em>"
        \o Piece(Get(meta, "volume"), ", vol. ", "")
        \o Piece(Get(meta, "issue"), ", no. ", "")
        \o Piece(Get(meta, "pages"), ", pp. ", "")
        \o Piece(Get(meta, "year"), ", ", "")
        \o ","

\* containerIEEE with the year before the pages, as MLA has them
containerIEEEYearBeforePages(meta) ==
    IF Truthy(Get(meta, "journal"))
    THEN <<"<em>" \o meta.journal \o "</em>"
            \o Piece(Get(meta, "volume"), ", vol. ", "")
            \o Piece(Get(meta, "issue"), ", no. ", "")
            \o Piece(Get(meta, "year"), ", ", "")
            \o Piece(Get(meta, "pages"), ", pp. ", "")
            \o ",">>
    ELSE IF isBook(meta) THEN publisherPart(meta, ", ")
    ELSE <<>>

containerIEEE(meta) ==
    IF Truthy(Get(meta, "journal")) THEN <<journalPartIEEE(meta)>>
    ELSE IF isBook(meta) THEN publisherPart(meta, ", ")
    ELSE <<>>

\* identifierIEEE without the period after the DOI
identifierIEEEWithoutPeriod(meta) ==
    IF Truthy(Get(meta, "doi")) THEN <<"doi: " \o meta.doi>>
    ELSE Push(Truthy(Get(meta, "url")), "[Online]. Available: " \o Get(meta, "url"))

identifierIEEE(meta) ==
    IF Truthy(Get(meta, "doi")) THEN <<"doi: " \o meta.doi \o ".">>
    ELSE Push(Truthy(Get(meta, "url")), "[Online]. Available: " \o Get(meta, "url"))

partsIEEE(meta, refNumber) ==
    <<"[" \o NumberToString(refNumber) \o "]", authorPartIEEE(meta), titlePartIEEE(meta)>>
        \o containerIEEE(meta) \o identifierIEEE(meta)

formatReferenceIEEE(meta, refNumber) ==
    IF authorsLengthThrows(meta) \/ titleTrimThrows(meta) THEN Thrown
    ELSE Returned(partsIEEE(meta, refNumber), " ")

\* the formatter of a style, as popup.ts and options.ts pick it
formatReference(meta, style, refNumber) ==
    CASE style = "apa" -> formatReferenceAPA(meta)
      [] style = "mla" -> formatReferenceMLA(meta)
      [] style = "chicago" -> formatReferenceChicago(meta)
      [] style = "vancouver" -> formatReferenceVancouver(meta, refNumber)
      [] style = "ieee" -> formatReferenceIEEE(meta, refNumber)

formatAuthors(style, o) ==
    CASE style = "apa" -> formatAuthorsAPA(o)
      [] style = "mla" -> formatAuthorsMLA(o)
      [] style = "chicago" -> formatAuthorsChicago(o)
      [] style = "vancouver" -> formatAuthorsVancouver(o)
      [] style = "ieee" -> formatAuthorsIEEE(o)

(***************************************************************************)
(* formatBibTeX                                                            *)
(***************************************************************************)
\* firstAuthor?.family?.toLowerCase() || firstAuthor?.full?.toLowerCase()
\*     .replace(/\s+/g, "") || "unknown", firstAuthor being meta.authors[0]
keyAuthorPart(authors) ==
    IF Len(authors) = 0 THEN "unknown"
    ELSE IF Truthy(Get(authors[1], "family")) THEN toLowerCase(authors[1].family)
    ELSE IF Truthy(Get(authors[1], "full"))
    THEN Either(Join(splitWs(toLowerCase(authors[1].full)), ""), "unknown")
    ELSE "unknown"

generateBibTeXKey(meta) ==
    keyAuthorPart(meta.authors) \o "_" \o Either(Get(meta, "year"), "nd")

\* escapeBibTeX with the backslash substituted last
escapeBibTeXBackslashLast(text) ==
    IF ~Truthy(text) THEN ""
    ELSE ReplaceAll(ReplaceAll(ReplaceAll(ReplaceAll(ReplaceAll(ReplaceAll(ReplaceAll(
            ReplaceAll(text, "&", "\\&"),
            "%", "\\%"), "$", "\\$"), "#", "\\#"), "_", "\\_"),
            "{", "\\{"), "}", "\\}"), "\\", "\\textbackslash ")

escapeBibTeX(text) ==
    IF ~Truthy(text) THEN ""
    ELSE ReplaceAll(ReplaceAll(ReplaceAll(ReplaceAll(ReplaceAll(ReplaceAll(ReplaceAll(
            ReplaceAll(text, "\\", "\\textbackslash "),
            "&", "\\&"), "%", "\\%"), "$", "\\$"), "#", "\\#"), "_", "\\_"),
            "{", "\\{"), "}", "\\}")

formatAuthorBibTeX(author) ==
    IF HasBothNames(author) THEN author.family \o ", " \o author.given
    ELSE NameOr(author, "Unknown")

formatAuthorsBibTeX(meta) ==
    IF noAuthors(meta) THEN ""
    ELSE Join(MapSeq(formatAuthorBibTeX, meta.authors), " and ")

getBibTeXType(meta) ==
    CASE Get(meta, "containerType") = "journal" -> "article"
      [] Get(meta, "containerType") = "book" -> "book"
      [] Get(meta, "containerType") = "conference" -> "inproceedings"
      [] Get(meta, "containerType") = "preprint" -> "misc"
      [] OTHER -> "article"

\* if (value) lines.push(`  key = {value},`)
Line(key, value) == Push(Truthy(value), "  " \o key \o " = {" \o value \o "},")

linesBibTeX(meta) ==
    <<"@" \o getBibTeXType(meta) \o "{" \o generateBibTeXKey(meta) \o ",">>
        \o Line("author", escapeBibTeX(formatAuthorsBibTeX(meta)))
        \o Line("title", escapeBibTeX(Get(meta, "title")))
        \o Line("journal", escapeBibTeX(Get(meta, "journal")))
        \o Line("year", Get(meta, "year"))
        \o Line("volume", Get(meta, "volume"))
        \o Line("number", Get(meta, "issue"))
        \o Line("pages", Get(meta, "pages"))
        \o Line("publisher", escapeBibTeX(Get(meta, "publisher")))
        \o Line("doi", Get(meta, "doi"))
        \o Line("url", Get(meta, "url"))
        \o <<"}">>

\* meta.authors[0] read when meta.authors is undefined
formatBibTeX(meta) ==
    IF "authors" \notin DOMAIN meta THEN Thrown ELSE Returned(linesBibTeX(meta), "\n")

(***************************************************************************)
(* The in-text citations (src/core/inText.ts and the formatters).          *)
(***************************************************************************)
\* authors[i].family || authors[i].full || "Unknown"
inTextName(o, i) == NameOr(o.authors[i], "Unknown")

\* formatInTextAPAParenthetical with "and" between two authors, as the
\* narrative form has it
formatInTextAPAParentheticalWithAnd(o, year) ==
    IF noAuthors(o) THEN "([No author], " \o Either(year, "n.d.") \o ")"
    ELSE IF Len(o.authors) = 1
    THEN "(" \o inTextName(o, 1) \o ", " \o Either(year, "n.d.") \o ")"
    ELSE IF Len(o.authors) = 2
    THEN "(" \o inTextName(o, 1) \o " and " \o inTextName(o, 2) \o ", " \o Either(year, "n.d.") \o ")"
    ELSE "(" \o inTextName(o, 1) \o " et al., " \o Either(year, "n.d.") \o ")"

formatInTextAPAParenthetical(o, year) ==
    IF noAuthors(o) THEN "([No author], " \o Either(year, "n.d.") \o ")"
    ELSE IF Len(o.authors) = 1
    THEN "(" \o inTextName(o, 1) \o ", " \o Either(year, "n.d.") \o ")"
    ELSE IF Len(o.authors) = 2
    THEN "(" \o inTextName(o, 1) \o " & " \o inTextName(o, 2) \o ", " \o Either(year, "n.d.") \o ")"
    ELSE "(" \o inTextName(o, 1) \o " et al., " \o Either(year, "n.d.") \o ")"

formatInTextAPANarrative(o, year) ==
    IF noAuthors(o) THEN "[No author] (" \o Either(year, "n.d.") \o ")"
    ELSE IF Len(o.authors) = 1
    THEN inTextName(o, 1) \o " (" \o Either(year, "n.d.") \o ")"
    ELSE IF Len(o.authors) = 2
    THEN inTextName(o, 1) \o " and " \o inTextName(o, 2) \o " (" \o Either(year, "n.d.") \o ")"
    ELSE inTextName(o, 1) \o " et al. (" \o Either(year, "n.d.") \o ")"

formatInTextMLANarrative(o) ==
    IF noAuthors(o) THEN "[No author]"
    ELSE IF Len(o.authors) = 1 THEN inTextName(o, 1)
    ELSE IF Len(o.authors) = 2 THEN inTextName(o, 1) \o " and " \o inTextName(o, 2)
    ELSE inTextName(o, 1) \o " et al."

formatInTextMLAParenthetical(o) ==
    IF noAuthors(o) THEN "([No author])"
    ELSE IF Len(o.authors) = 1 THEN "(" \o inTextName(o, 1) \o ")"
    ELSE IF Len(o.authors) = 2
    THEN "(" \o inTextName(o, 1) \o " and " \o inTextName(o, 2) \o ")"
    ELSE "(" \o inTextName(o, 1) \o " et al.)"

formatInTextChicagoParenthetical(noteNumber) == "[" \o NumberToString(noteNumber) \o "]"

formatInTextChicagoNarrative(o, noteNumber) ==
    IF noAuthors(o) THEN "[No author][" \o NumberToString(noteNumber) \o "]"
    ELSE inTextName(o, 1) \o "[" \o NumberToString(noteNumber) \o "]"

formatInTextIEEEParenthetical(refNumber) == "[" \o NumberToString(refNumber) \o "]"

\* formatInTextIEEENarrative with "et al." from three authors on, as APA has it
formatInTextIEEENarrativeFromThree(o, refNumber) ==
    IF noAuthors(o) THEN "[No author] [" \o NumberToString(refNumber) \o "]"
    ELSE IF Len(o.authors) <= 2
    THEN inTextName(o, 1) \o " [" \o NumberToString(refNumber) \o "]"
    ELSE inTextName(o, 1) \o " et al. [" \o NumberToString(refNumber) \o "]"

formatInTextIEEENarrative(o, refNumber) ==
    IF noAuthors(o) THEN "[No author] [" \o NumberToString(refNumber) \o "]"
    ELSE IF Len(o.authors) = 1
    THEN inTextName(o, 1) \o " [" \o NumberToString(refNumber) \o "]"
    ELSE inTextName(o, 1) \o " et al. [" \o NumberToString(refNumber) \o "]"

formatInTextVancouverParenthetical(refNumber) == "(" \o NumberToString(refNumber) \o ")"

formatInTextVancouverNarrative(o, refNumber) ==
    IF noAuthors(o) THEN "[No author] (" \o NumberToString(refNumber) \o ")"
    ELSE IF Len(o.authors) = 1
    THEN inTextName(o, 1) \o " (" \o NumberToString(refNumber) \o ")"
    ELSE inTextName(o, 1) \o " et al. (" \o NumberToString(refNumber) \o ")"

\* formatInTextAPA .. formatInTextVancouver of inText.ts, as popup.ts calls them
formatInTextOfStyle(style, o, year, refNumber, variant) ==
    CASE style = "apa" ->
            IF variant = "narrative" THEN formatInTextAPANarrative(o, year)
            ELSE formatInTextAPAParenthetical(o, year)
      [] style = "mla" ->
            IF variant = "narrative" THEN formatInTextMLANarrative(o)
            ELSE formatInTextMLAParenthetical(o)
      [] style = "chicago" ->
            IF variant = "narrative" THEN formatInTextChicagoNarrative(o, refNumber)
            ELSE formatInTextChicagoParenthetical(refNumber)
      [] style = "ieee" ->
            IF variant = "narrative" THEN formatInTextIEEENarrative(o, refNumber)
            ELSE formatInTextIEEEParenthetical(refNumber)
      [] style = "vancouver" ->
            IF variant = "narrative" THEN formatInTextVancouverNarrative(o, refNumber)
            ELSE formatInTextVancouverParenthetical(refNumber)

(***************************************************************************)
(* The inputs of the formatters.                                           *)
(***************************************************************************)
Styles == {"apa", "mla", "chicago", "vancouver", "ieee"}
Variants == {"parenthetical", "narrative"}
RefNumbers == {1, 12}
Years == {"2020", UNDEFINED}

\* the family name of the i-th author of a list: Ason, Bson, ...
FamilyOf(i) == Char(UpperLetters, i) \o "son"

GivenOf(i) ==
    IF i % 3 = 1 THEN "John Paul" ELSE IF i % 3 = 2 THEN "mary" ELSE "J. K."

\* what an author record holds: given and family names (and the full name
\* made of them, as fetchFromCrossRef does), a family name only, a full
\* name only, or no name at all
Kinds == {"both", "family", "full", "none"}

AuthorOf(i, kind) ==
    CASE kind = "both" ->
            [given |-> GivenOf(i), family |-> FamilyOf(i),
             full |-> GivenOf(i) \o " " \o FamilyOf(i)]
      [] kind = "family" -> [family |-> FamilyOf(i)]
      [] kind = "full" -> [given |-> "", family |-> "", full |-> "The " \o FamilyOf(i) \o " Group"]
      [] kind = "none" -> [full |-> ""]

\* lists of 0..MaxAuthors authors of one kind, and every list of up to
\* MaxMixed authors of any kinds
UniformLists == {[i \in 1..n |-> AuthorOf(i, kind)] : n \in 0..MaxAuthors, kind \in Kinds}
MixedLists ==
    UNION {{[i \in 1..n |-> AuthorOf(i, kinds[i])] : kinds \in [1..n -> Kinds]} : n \in 0..MaxMixed}

NoProperties == [f \in {} |-> ""]

\* the objects that hold `authors`, the one without it included
AuthorArgs == {[authors |-> list] : list \in UniformLists \cup MixedLists} \cup {NoProperties}

FullMeta ==
    [doi |-> "10.1000/xyz123",
     title |-> "deep learning for DNA analysis",
     authors |-> <<AuthorOf(1, "both")>>,
     year |-> "2020",
     journal |-> "journal of the ACM",
     volume |-> "12",
     issue |-> "3",
     pages |-> "45-67",
     url |-> "https://example.org/paper",
     publisher |-> "Springer",
     containerType |-> "journal",
     isEditedWork |-> FALSE]

OptionalFields == {"doi", "year", "journal", "volume", "issue", "pages", "url", "publisher"}
ContainerTypes == {"journal", "book", UNDEFINED}

WithContainerType(meta, type) ==
    IF type = UNDEFINED THEN Without(meta, {"containerType"})
    ELSE [meta EXCEPT !.containerType = type]

\* one author with a title, any of the optional fields absent
ContainerMetas ==
    {WithContainerType(Without(FullMeta, absent), type) :
        absent \in SUBSET OptionalFields, type \in ContainerTypes}

Titles == {"deep learning for DNA analysis", "  Is it real?  ", "", UNDEFINED}
MetaAuthorLists ==
    {<<>>,
     <<AuthorOf(1, "both")>>,
     <<AuthorOf(1, "family")>>,
     <<AuthorOf(1, "both"), AuthorOf(2, "both")>>,
     <<AuthorOf(1, "both"), AuthorOf(2, "family"), AuthorOf(3, "none")>>}

WithTitle(meta, title) ==
    IF title = UNDEFINED THEN Without(meta, {"title"}) ELSE [meta EXCEPT !.title = title]

WithEdited(meta, edited) ==
    IF edited = UNDEFINED THEN Without(meta, {"isEditedWork"})
    ELSE [meta EXCEPT !.isEditedWork = (edited = "true")]

\* every title and author list, the list absent too, edited or not, with all
\* of the optional fields or none of them
PeopleBases == {FullMeta, Without(FullMeta, OptionalFields)}
PeopleMetas ==
    {WithEdited(WithTitle(WithContainerType(m, type), title), edited) :
        m \in {[base EXCEPT !.authors = list] : base \in PeopleBases, list \in MetaAuthorLists}
              \cup {Without(base, {"authors"}) : base \in PeopleBases},
        type \in {"journal", "book"},
        title \in Titles,
        edited \in {"true", "false", UNDEFINED}}

Metas == ContainerMetas \cup PeopleMetas

(***************************************************************************)
(* The formatters as calls: each action is one call of a pure function     *)
(* from the idle state.                                                    *)
(***************************************************************************)
CallFormatAuthors ==
    /\ op = "none"
    /\ \E style \in Styles, o \in AuthorArgs :
            /\ op' = "formatAuthors"
            /\ arg' = [style |-> style, o |-> o]
            /\ ret' = [text |-> formatAuthors(style, o)]
            /\ UNCHANGED <<arg2, ret2, pc, env>>

CallFormatReference ==
    /\ op = "none"
    /\ \E style \in Styles, meta \in Metas, refNumber \in RefNumbers :
            /\ op' = "formatReference"
            /\ arg' = [style |-> style, meta |-> meta, refNumber |-> refNumber]
            /\ ret' = formatReference(meta, style, refNumber)
            /\ UNCHANGED <<arg2, ret2, pc, env>>

\* Records whose values hold the characters escapeBibTeX treats and first
\* authors whose names hold whitespace, as formatBibTeX inputs.
SpecialTexts ==
    {"50% & more", "a_b {c} #1", "C:\\tmp\\x $5", "plain title", "\\{&}"}

BibAuthorLists ==
    {<<[family |-> "van der Berg", given |-> "Jan"]>>,
     <<[family |-> "O_Neil & Co"]>>,
     <<[full |-> "Jean Luc  Picard"]>>,
     <<[full |-> "  "]>>,
     <<[given |-> "Ann"], [family |-> "Bson", given |-> "Bo"]>>,
     <<>>}

BibIdentifiers ==
    {[doi |-> "10.1000/abc_def", url |-> "https://example.org/a_b?x=1&y=2#s"],
     [doi |-> "10.1000/xyz123"],
     [url |-> "https://example.org/50%25"]}

BibMetas ==
    {[title |-> t, authors |-> a, journal |-> "R&D_Journal",
      publisher |-> "Smith & Sons {Ltd}", volume |-> "12", issue |-> "3",
      pages |-> "45-67", containerType |-> "journal"] @@ i @@ y :
        t \in SpecialTexts, a \in BibAuthorLists, i \in BibIdentifiers,
        y \in {[year |-> "2020"], NoProperties}}

CallFormatBibTeX ==
    /\ op = "none"
    /\ \E meta \in Metas \cup BibMetas :
            /\ op' = "formatBibTeX"
            /\ arg' = [meta |-> meta]
            /\ ret' = formatBibTeX(meta)
            /\ UNCHANGED <<arg2, ret2, pc, env>>

CallFormatInText ==
    /\ op = "none"
    /\ \E style \in Styles, o \in AuthorArgs, year \in Years,
          refNumber \in RefNumbers, variant \in Variants :
            /\ op' = "formatInText"
            /\ arg' = [style |-> style, o |-> o, year |-> year,
                       refNumber |-> refNumber, variant |-> variant]
            /\ ret' = [text |-> formatInTextOfStyle(style, o, year, refNumber, variant)]
            /\ UNCHANGED <<arg2, ret2, pc, env>>

FormatNext ==
    \/ CallFormatAuthors
    \/ CallFormatReference
    \/ CallFormatBibTeX
    \/ CallFormatInText

SpecFormat == Init /\ [][FormatNext]_vars

(***************************************************************************)
(* The metadata layer (src/core/metadata.ts): fetchMetadata over the cache *)
(* in browser storage, CrossRef and DataCite, each API called through      *)
(* fetchWithRetry.  A call is followed await by await: pc is the await the *)
(* call is suspended at, arg2 the fetchWithRetry call in progress, ret2    *)
(* what that call settled with, env the browser storage, the clock and,    *)
(* for the call in progress, what has been asked of the network so far.    *)
(***************************************************************************)
MaxTicks == 3           \* the clock stops after this many ticks
MaxCalls == 3           \* fetchMetadata calls in one behaviour

DefaultMaxRetries == 3
DefaultCacheHours == 24
MsPerHour == 60 * 60 * 1000
TickMs == MsPerHour \div 2
CACHE_PREFIX == "doi_cache_"

Apis == {"crossref", "datacite"}
FetchDois == {"10.1000/a", "10.1000/b"}

\* what one fetch() settles with: a response, or a rejection (network error)
Response(status) ==
    [kind |-> "response", ok |-> (status >= 200 /\ status <= 299), status |-> status]
NetworkError == [kind |-> "error", ok |-> FALSE, status |-> 0]
NoResponse == [kind |-> "none", ok |-> FALSE, status |-> 0]
Statuses == {200, 404, 429, 500}
FetchOutcomes == {Response(st) : st \in Statuses} \cup {NetworkError}

\* the record an API supplies for a DOI
RecordFrom(api, doi) == [doi |-> doi, from |-> api]

\* getRetrySettings: result.maxRetries !== undefined ? result.maxRetries : 3
getRetrySettings(settings) ==
    [maxRetries |-> IF "maxRetries" \in DOMAIN settings THEN settings.maxRetries
                    ELSE DefaultMaxRetries]

\* getCacheSettings
getCacheSettings(settings) ==
    [enabled |-> IF "enableCaching" \in DOMAIN settings THEN settings.enableCaching
                 ELSE TRUE,
     durationMs |-> (IF "cacheDurationHours" \in DOMAIN settings
                        /\ settings.cacheDurationHours # 0
                     THEN settings.cacheDurationHours ELSE DefaultCacheHours) * MsPerHour]

\* afterAttempt retrying every response that is not OK
afterAttemptRetryingAll(attempt, retries, outcome) ==
    IF outcome.kind = "error"
    THEN IF attempt < retries THEN "sleep" ELSE "throw"
    ELSE IF outcome.ok THEN "return"
    ELSE IF attempt < retries THEN "sleep"
    ELSE "return"

\* what the loop of fetchWithRetry does with the outcome of the fetch of
\* iteration attempt (0-based): "return" it, "sleep" and go round again, or
\* leave the loop ("throw")
afterAttempt(attempt, retries, outcome) ==
    IF outcome.kind = "error"
    THEN IF attempt < retries THEN "sleep" ELSE "throw"
    ELSE IF outcome.ok THEN "return"
    ELSE IF outcome.status = 429 /\ attempt < retries THEN "sleep"
    ELSE IF outcome.status >= 500 /\ attempt < retries THEN "sleep"
    ELSE "return"

NoFetch ==
    [kind |-> "none", api |-> "none", retries |-> 0, attempt |-> 0,
     phase |-> "none", last |-> NoResponse]
StartFetch(api, settings) ==
    [kind |-> "fetchWithRetry", api |-> api,
     retries |-> getRetrySettings(settings).maxRetries, attempt |-> 0,
     phase |-> "fetching", last |-> NoResponse]

NotSettled == [state |-> "pending", response |-> NoResponse]
ReturnedResponse(r) == [state |-> "returned", response |-> r]
ThrownError == [state |-> "thrown", response |-> NoResponse]

NoRequests == [a \in Apis |-> 0]
NothingYielded == [a \in Apis |-> "unknown"]
FreshCall(e) ==
    [e EXCEPT !.requests = NoRequests, !.yielded = NothingYielded, !.handed = "no",
              !.lookup = "no"]

\* storage.local without the key, and with the key set
RemoveKey(cache, key) == [k \in DOMAIN cache \ {key} |-> cache[k]]
SetKey(cache, key, value) ==
    [k \in DOMAIN cache \cup {key} |-> IF k = key THEN value ELSE cache[k]]

\* cacheValid with a record of exactly the configured age still valid
cacheValidAtDuration(e, doi) ==
    /\ getCacheSettings(e.settings).enabled
    /\ CACHE_PREFIX \o doi \in DOMAIN e.cache
    /\ e.now - e.cache[CACHE_PREFIX \o doi].timestamp
            <= getCacheSettings(e.settings).durationMs

\* getCachedMetadata(doi) at time now: the record it returns (hit) and the
\* cache it leaves
cacheValid(e, doi) ==
    /\ getCacheSettings(e.settings).enabled
    /\ CACHE_PREFIX \o doi \in DOMAIN e.cache
    /\ e.now - e.cache[CACHE_PREFIX \o doi].timestamp
            < getCacheSettings(e.settings).durationMs

\* which way getCachedMetadata went
cacheLookup(e, doi) ==
    IF ~getCacheSettings(e.settings).enabled THEN "disabled"
    ELSE IF CACHE_PREFIX \o doi \notin DOMAIN e.cache THEN "miss"
    ELSE IF cacheValid(e, doi) THEN "hit"
    ELSE "expired"

cacheAfterRead(e, doi) ==
    IF /\ getCacheSettings(e.settings).enabled
       /\ CACHE_PREFIX \o doi \in DOMAIN e.cache
       /\ ~cacheValid(e, doi)
    THEN RemoveKey(e.cache, CACHE_PREFIX \o doi)
    ELSE e.cache

\* setCachedMetadata(doi, metadata); writes is whether storage.local.set
\* resolves (it rejects when the quota is exceeded, which the catch swallows)
cacheAfterWrite(e, doi, metadata, writes) ==
    IF getCacheSettings(e.settings).enabled /\ writes
    THEN SetKey(e.cache, CACHE_PREFIX \o doi, [metadata |-> metadata, timestamp |-> e.now])
    ELSE e.cache

Success(data, source) ==
    [success |-> TRUE, data |-> data, source |-> source, error |-> ""]
Failure(error) ==
    [success |-> FALSE, data |-> RecordFrom("none", ""), source |-> "none", error |-> error]
NotReturned ==
    [success |-> FALSE, data |-> RecordFrom("none", ""), source |-> "none", error |-> PENDING]

NoSettings == [f \in {} |-> 0]
SettingsChoices ==
    {NoSettings,
     [enableCaching |-> FALSE, cacheDurationHours |-> 1, maxRetries |-> 1],
     [enableCaching |-> TRUE, cacheDurationHours |-> 1, maxRetries |-> 0],
     [enableCaching |-> TRUE, cacheDurationHours |-> 24, maxRetries |-> 1]}

FetchInit ==
    /\ op = "none"
    /\ arg = [doi |-> "", calls |-> 0]
    /\ ret = NotReturned
    /\ arg2 = NoFetch
    /\ ret2 = NotSettled
    /\ pc = "idle"
    /\ env = [settings |-> NoSettings, cache |-> [k \in {} |-> 0], now |-> 0,
              requests |-> NoRequests, yielded |-> NothingYielded, handed |-> "no",
              lookup |-> "no"]

\* fetchMetadata(doi) is called; without a DOI it returns at once
CallFetchMetadata ==
    /\ op = "none"
    /\ arg.calls < MaxCalls
    /\ \E doi \in FetchDois \cup {""} :
        /\ op' = "fetchMetadata"
        /\ arg' = [doi |-> doi, calls |-> arg.calls + 1]
        /\ env' = FreshCall(env)
        /\ IF doi = ""
           THEN ret' = Failure("No DOI provided") /\ pc' = "done"
           ELSE ret' = NotReturned /\ pc' = "getCachedMetadata"
        /\ UNCHANGED <<arg2, ret2>>

\* await getCachedMetadata(doi): a hit is returned, otherwise CrossRef is asked
AwaitCache ==
    /\ pc = "getCachedMetadata"
    /\ env' = [env EXCEPT !.cache = cacheAfterRead(env, arg.doi),
                          !.lookup = cacheLookup(env, arg.doi)]
    /\ IF cacheValid(env, arg.doi)
       THEN /\ ret' = Success(env.cache[CACHE_PREFIX \o arg.doi].metadata, "crossref")
            /\ pc' = "done"
            /\ UNCHANGED <<arg2, ret2>>
       ELSE /\ pc' = "crossref"
            /\ arg2' = StartFetch("crossref", env.settings)
            /\ ret2' = NotSettled
            /\ UNCHANGED ret
    /\ UNCHANGED <<op, arg>>

\* one iteration of the loop of fetchWithRetry: fetch settles, and the
\* function returns, sleeps or throws
FetchAttempt ==
    /\ arg2.phase = "fetching"
    /\ \E outcome \in FetchOutcomes :
        /\ env' = [env EXCEPT !.requests[arg2.api] = @ + 1]
        /\ CASE afterAttempt(arg2.attempt, arg2.retries, outcome) = "return" ->
                    /\ arg2' = [arg2 EXCEPT !.phase = "settled", !.last = outcome]
                    /\ ret2' = ReturnedResponse(outcome)
             [] afterAttempt(arg2.attempt, arg2.retries, outcome) = "sleep" ->
                    /\ arg2' = [arg2 EXCEPT !.phase = "sleeping", !.last = outcome]
                    /\ ret2' = NotSettled
             [] OTHER ->
                    /\ arg2' = [arg2 EXCEPT !.phase = "settled", !.last = outcome]
                    /\ ret2' = ThrownError
    /\ UNCHANGED <<op, arg, ret, pc>>

\* the sleep of fetchWithRetry is over: continue with the next iteration
Backoff ==
    /\ arg2.phase = "sleeping"
    /\ arg2' = [arg2 EXCEPT !.phase = "fetching", !.attempt = @ + 1]
    /\ UNCHANGED <<op, arg, ret, ret2, pc, env>>

\* fetchFromCrossRef / fetchFromDataCite after fetchWithRetry settled: null
\* when it threw, when the response is not OK or when the body holds no work,
\* otherwise the record; found is whether the body of an OK response holds one
apiYields(settled, found) ==
    settled.state = "returned" /\ settled.response.ok /\ found

AwaitApi ==
    /\ pc \in Apis
    /\ arg2.phase = "settled"
    /\ \E found \in BOOLEAN :
        IF apiYields(ret2, found)
        THEN /\ pc' = "setCachedMetadata"
             /\ env' = [env EXCEPT !.yielded[pc] = "record"]
             /\ arg2' = [arg2 EXCEPT !.phase = "done"]
             /\ UNCHANGED <<ret, ret2>>
        ELSE IF pc = "crossref"
        THEN /\ pc' = "datacite"
             /\ env' = [env EXCEPT !.yielded[pc] = "nothing"]
             /\ arg2' = StartFetch("datacite", env.settings)
             /\ ret2' = NotSettled
             /\ UNCHANGED ret
        ELSE /\ pc' = "done"
             /\ env' = [env EXCEPT !.yielded[pc] = "nothing"]
             /\ ret' = Failure("Unable to fetch metadata from any source. The DOI may be invalid or the APIs may be unavailable.")
             /\ arg2' = [arg2 EXCEPT !.phase = "done"]
             /\ UNCHANGED ret2
    /\ UNCHANGED <<op, arg>>

\* AwaitStore returning the record without writing it to storage
AwaitStoreWithoutWrite ==
    /\ pc = "setCachedMetadata"
    /\ \E writes \in BOOLEAN :
        env' = [env EXCEPT
                  !.handed = IF ~getCacheSettings(env.settings).enabled THEN "skipped"
                             ELSE IF writes THEN "written" ELSE "failed"]
    /\ ret' = Success(RecordFrom(arg2.api, arg.doi), arg2.api)
    /\ pc' = "done"
    /\ UNCHANGED <<op, arg, arg2, ret2>>

\* await setCachedMetadata(doi, metadata), then the result is returned
AwaitStore ==
    /\ pc = "setCachedMetadata"
    /\ \E writes \in BOOLEAN :
        env' = [env EXCEPT
                  !.cache = cacheAfterWrite(env, arg.doi, RecordFrom(arg2.api, arg.doi), writes),
                  !.handed = IF ~getCacheSettings(env.settings).enabled THEN "skipped"
                             ELSE IF writes THEN "written" ELSE "failed"]
    /\ ret' = Success(RecordFrom(arg2.api, arg.doi), arg2.api)
    /\ pc' = "done"
    /\ UNCHANGED <<op, arg, arg2, ret2>>

\* the caller has the result
Resume ==
    /\ pc = "done"
    /\ op' = "none"
    /\ pc' = "idle"
    /\ ret' = NotReturned
    /\ arg2' = NoFetch
    /\ ret2' = NotSettled
    /\ UNCHANGED <<arg, env>>

\* time passes between calls and while fetchWithRetry sleeps
Tick ==
    /\ pc = "idle" \/ arg2.phase = "sleeping"
    /\ env.now < MaxTicks * TickMs
    /\ env' = [env EXCEPT !.now = @ + TickMs]
    /\ UNCHANGED <<op, arg, ret, arg2, ret2, pc>>

\* the user saves the settings page
SaveSettings ==
    /\ pc = "idle"
    /\ \E settings \in SettingsChoices \ {env.settings} :
        env' = [env EXCEPT !.settings = settings]
    /\ UNCHANGED <<op, arg, ret, arg2, ret2, pc>>

FetchStep == AwaitCache \/ FetchAttempt \/ Backoff \/ AwaitApi \/ AwaitStore

FetchNext ==
    \/ CallFetchMetadata
    \/ AwaitCache
    \/ FetchAttempt
    \/ Backoff
    \/ AwaitApi
    \/ AwaitStore
    \/ Resume
    \/ Tick
    \/ SaveSettings

SpecFetch == FetchInit /\ [][FetchNext]_vars

\* every fetch settles, every sleep ends and every storage call resolves
SpecFetchLive == SpecFetch /\ WF_vars(FetchStep)

(***************************************************************************)
(* The batch page (src/options/options.ts).  The page's state is env:      *)
(* batchEntries, pdfFiles, activeTab, abortController and the buttons.     *)
(* processBatch and retryFailed are async functions: a run is suspended at *)
(* an await while clicks and other runs proceed, and arg and arg2 are the  *)
(* two runs that can be in progress.  A step is one synchronous stretch of *)
(* code, from a click or a settled await to the next await or the return.  *)
(***************************************************************************)
MaxBatch == 2           \* lines of the text area, and PDF files
MaxClicks == 4          \* clicks and drops of the user in one behaviour

DoiLower == "10.1000/xyz1234"
DoiUpper == "10.1000/XYZ1234"
BatchLines ==
    {DoiLower, "doi:" \o DoiUpper, "https://example.org/p1",
     "https://example.org/p2", "not a doi"}
PdfFile(name, doi) == [name |-> name, doi |-> doi]
\* the files that can be uploaded, each with the DOI processPDFFile finds in
\* it ("" when it finds none)
BatchFiles ==
    {PdfFile("a.pdf", DoiLower), PdfFile("b.pdf", DoiUpper)}
\* what fetchDOIFromURL can resolve to: a DOI, null, or a rejection
UrlResults == {DoiLower, NULL, "rejected"}

BatchStrings ==
    BatchLines \cup {f.doi : f \in BatchFiles} \cup {f.name : f \in BatchFiles}
        \cup UrlResults

\* normalizeDOI, isValidDOI and isURL of core/doi.ts on the strings of the page
NormalizedOf == [s \in BatchStrings |-> normalizeDOI(s)]
ValidDoiOf == [s \in BatchStrings |->
                 NormalizedOf[s] # NULL /\ isValidDOI(NormalizedOf[s])]
IsUrlOf == [s \in BatchStrings |-> isURL(s)]
LowerOf == [s \in BatchStrings |->
              toLowerCase(IF NormalizedOf[s] = NULL THEN s ELSE NormalizedOf[s])]

\* a batch entry; doi is the DOI of entry.metadata, "" without metadata
Entry(input) == [input |-> input, status |-> "pending", doi |-> ""]

NoRun == [kind |-> "none", i |-> 0, at |-> "none", array |-> 0, doi |-> "", seen |-> {}]

\* checkDuplicates(dois).unique: the first occurrence of every key, the key
\* being (normalizeDOI(doi) || doi).toLowerCase()
RECURSIVE uniqueFrom(_, _, _)
uniqueFrom(dois, k, seenSet) ==
    IF k > Len(dois) THEN <<>>
    ELSE IF LowerOf[dois[k]] \in seenSet THEN uniqueFrom(dois, k + 1, seenSet)
    ELSE <<dois[k]>> \o uniqueFrom(dois, k + 1, seenSet \cup {LowerOf[dois[k]]})

checkDuplicates(dois) ==
    [unique |-> uniqueFrom(dois, 1, {}),
     duplicates |-> {LowerOf[dois[k]] : k \in {j \in 1..Len(dois) :
                        \E h \in 1..Len(dois) : h # j /\ LowerOf[dois[h]] = LowerOf[dois[j]]}}]

\* updateResultsDisplay: the Retry Failed button is shown when an entry failed
updateResultsDisplay(p) ==
    [p EXCEPT !.retryShown =
        \E k \in 1..Len(p.batchEntries) : p.batchEntries[k].status = "error"]

\* entry.status = status and entry.metadata = the record of doi, entry being
\* element i (0-based) of the array the run took it from: a write to an entry
\* of an array batchEntries no longer refers to is not seen; error is the
\* message stored with a failure
setEntry(p, array, i, status, doi, error) ==
    IF array = p.array /\ i < Len(p.batchEntries)
    THEN [p EXCEPT !.batchEntries[i + 1] =
            [input |-> @.input, status |-> status, doi |-> doi]]
    ELSE p

\* the catch and finally blocks of processBatch and retryFailed, and the end
\* of the run
cancelAll(p) ==
    [p EXCEPT !.batchEntries =
        [k \in 1..Len(p.batchEntries) |->
            IF p.batchEntries[k].status \in {"pending", "processing"}
            THEN [p.batchEntries[k] EXCEPT !.status = "error"]
            ELSE p.batchEntries[k]]]

finish(p, r, how) ==
    [page |-> [(IF how = "cancelled" THEN updateResultsDisplay(cancelAll(p)) ELSE p)
                 EXCEPT !.abortController = "null", !.owner = 0, !.loading = FALSE],
     run |-> NoRun, how |-> how]

suspended(p, r, at, doi) ==
    [page |-> p, run |-> [r EXCEPT !.at = at, !.doi = doi, !.array = p.array],
     how |-> "awaiting"]

\* the loop of processBatchText from iteration r.i on, up to its next await
RECURSIVE textLoop(_, _)
textLoop(p, r) ==
    IF r.i >= Len(p.batchEntries) THEN finish(p, r, "normal")
    ELSE IF p.abortController = "aborted" THEN finish(p, r, "cancelled")
    ELSE IF IsUrlOf[p.batchEntries[r.i + 1].input]
    THEN suspended((updateResultsDisplay(
                setEntry(p, p.array, r.i, "processing", "", ""))), r, "url", "")
    ELSE IF ~ValidDoiOf[p.batchEntries[r.i + 1].input]
    THEN textLoop((updateResultsDisplay(
                setEntry(p, p.array, r.i, "error", "", "Invalid DOI format"))),
                  [r EXCEPT !.i = @ + 1])
    ELSE suspended((updateResultsDisplay(
                setEntry(p, p.array, r.i, "processing", "", ""))), r, "metadata",
                   NormalizedOf[p.batchEntries[r.i + 1].input])

\* the loop of processBatchPDF from iteration r.i on, up to its next await;
\* batchEntries[i] is undefined when pdfFiles has grown beyond batchEntries
pdfLoop(p, r) ==
    IF r.i >= Len(p.pdfFiles) THEN finish(p, r, "normal")
    ELSE IF p.abortController = "aborted" THEN finish(p, r, "cancelled")
    ELSE IF r.i >= Len(p.batchEntries) THEN finish(p, r, "error")
    ELSE suspended((updateResultsDisplay(
                setEntry(p, p.array, r.i, "processing", "", ""))), r, "pdf",
                   p.pdfFiles[r.i + 1].doi)

\* the loop of retryFailed from iteration r.i on, up to its next await
RECURSIVE retryLoop(_, _)
retryLoop(p, r) ==
    IF r.i >= Len(p.batchEntries) THEN finish(p, r, "normal")
    ELSE IF p.batchEntries[r.i + 1].status # "pending"
    THEN retryLoop(p, [r EXCEPT !.i = @ + 1])
    ELSE IF p.abortController = "aborted" THEN finish(p, r, "cancelled")
    ELSE IF p.activeTab = "text"
    THEN IF ~ValidDoiOf[p.batchEntries[r.i + 1].input]
         THEN suspended((updateResultsDisplay(
                setEntry(p, p.array, r.i, "error", "", "Invalid DOI format"))),
                        r, "sleep", "")
         ELSE IF LowerOf[p.batchEntries[r.i + 1].input] \in r.seen
         THEN suspended((updateResultsDisplay(
                setEntry(p, p.array, r.i, "error", "", "Duplicate DOI"))),
                        r, "sleep", "")
         ELSE suspended((updateResultsDisplay(
                setEntry(p, p.array, r.i, "processing", "", ""))),
                        [r EXCEPT !.seen = @ \cup {LowerOf[p.batchEntries[r.i + 1].input]}],
                        "metadata", NormalizedOf[p.batchEntries[r.i + 1].input])
    ELSE IF r.i < Len(p.pdfFiles)
    THEN suspended((updateResultsDisplay(
                setEntry(p, p.array, r.i, "processing", "", ""))), r, "pdf",
                   p.pdfFiles[r.i + 1].doi)
    ELSE suspended((updateResultsDisplay(
                setEntry(p, p.array, r.i, "processing", "", ""))), r, "sleep", "")

loopOf(p, r) ==
    CASE r.kind = "processBatchText" -> textLoop(p, r)
      [] r.kind = "processBatchPDF" -> pdfLoop(p, r)
      [] OTHER -> retryLoop(p, r)

\* processPDFFile(file) has resolved, in processBatchPDF and in retryFailed:
\* the DOI found is checked against the DOIs seen and handed to
\* processEntryWithDOI, or the entry fails and the run sleeps
afterPdf(p, r) ==
    IF r.doi = ""
    THEN suspended(updateResultsDisplay(
            setEntry(p, r.array, r.i, "error", "", "No DOI found in PDF")), r, "sleep", "")
    ELSE IF ~ValidDoiOf[r.doi]
    THEN suspended(updateResultsDisplay(
            setEntry(p, r.array, r.i, "error", "", "Invalid DOI format extracted from PDF")),
                   r, "sleep", "")
    ELSE IF LowerOf[r.doi] \in r.seen
    THEN suspended(updateResultsDisplay(
            setEntry(p, r.array, r.i, "error", "", "Duplicate DOI")), r, "sleep", "")
    ELSE [page |-> p,
          run |-> [r EXCEPT !.at = "metadata", !.doi = NormalizedOf[r.doi],
                            !.seen = @ \cup {LowerOf[r.doi]}],
          how |-> "awaiting"]

\* fetchDOIFromURL(entry.input) has settled, in processBatchText
afterUrl(p, r, result) ==
    IF result = "rejected"
    THEN textLoop(updateResultsDisplay(
            setEntry(p, r.array, r.i, "error", "", "Failed to fetch URL")),
                  [r EXCEPT !.i = @ + 1])
    ELSE IF result = NULL
    THEN textLoop(updateResultsDisplay(
            setEntry(p, r.array, r.i, "error", "", "Could not extract DOI from URL")),
                  [r EXCEPT !.i = @ + 1])
    ELSE IF ~isValidDOI(result)
    THEN textLoop(updateResultsDisplay(
            setEntry(p, r.array, r.i, "error", "", "Invalid DOI format")),
                  [r EXCEPT !.i = @ + 1])
    ELSE [page |-> p, run |-> [r EXCEPT !.at = "metadata", !.doi = result],
          how |-> "awaiting"]

\* processEntryWithDOI(entry, doi, i) has returned: fetchMetadata succeeded
\* and the citation was formatted, or the entry failed
afterMetadata(p, r, success) ==
    [page |-> updateResultsDisplay(
                IF success THEN setEntry(p, r.array, r.i, "success", r.doi, "")
                ELSE setEntry(p, r.array, r.i, "error", "", "Failed to fetch metadata")),
     run |-> [r EXCEPT !.at = "sleep"], how |-> "awaiting"]

\* the DOIs of the successful entries, as retryFailed collects them
seenOfSuccessful(p) ==
    {LowerOf[p.batchEntries[k].doi] :
        k \in {j \in 1..Len(p.batchEntries) : p.batchEntries[j].status = "success"}}

resetFailed(p) ==
    [p EXCEPT !.batchEntries =
        [k \in 1..Len(p.batchEntries) |->
            IF p.batchEntries[k].status = "error"
            THEN [p.batchEntries[k] EXCEPT !.status = "pending"]
            ELSE p.batchEntries[k]]]

BatchInit ==
    /\ op = "none"
    /\ arg = NoRun
    /\ arg2 = NoRun
    /\ ret = NoResult
    /\ ret2 = PENDING
    /\ pc = "idle"
    /\ env = [batchEntries |-> <<>>, array |-> 0, pdfFiles |-> <<>>, activeTab |-> "text",
              abortController |-> "null", owner |-> 0, loading |-> FALSE,
              retryShown |-> FALSE, hidden |-> TRUE, cancelled |-> FALSE,
              clicks |-> 0]

Slots == {1, 2}
RunOf(s) == IF s = 1 THEN arg ELSE arg2
FreeSlot(s) == RunOf(s).kind = "none" /\ (s = 2 => arg.kind # "none")
Running == {s \in Slots : RunOf(s).kind # "none"}

\* the page as a handler of a user event finds it
Clicked == [env EXCEPT !.clicks = @ + 1]

\* the function a run belongs to
FunctionOf(r) == IF r.kind = "retryFailed" THEN "retryFailed" ELSE "processBatch"

\* the step leaves the run m.run in slot s and the page m.page; pc is how the
\* stretch of code ended: awaiting, or with the run finished
Becomes(s, m, name) ==
    /\ env' = [m.page EXCEPT !.cancelled =
                    @ /\ \E t \in Slots : (IF t = s THEN m.run ELSE RunOf(t)).kind # "none"]
    /\ IF s = 1 THEN arg' = m.run /\ UNCHANGED arg2
       ELSE arg2' = m.run /\ UNCHANGED arg
    /\ op' = name
    /\ pc' = m.how
    /\ UNCHANGED <<ret, ret2>>

NewController(p, s) == [p EXCEPT !.abortController = "live", !.owner = s]
NewArray(p, inputs) ==
    [p EXCEPT !.batchEntries = [k \in 1..Len(inputs) |-> Entry(inputs[k])],
              !.array = @ + 1, !.hidden = FALSE]
showLoading(p) == [p EXCEPT !.loading = TRUE]
StartRun(kind) == [NoRun EXCEPT !.kind = kind]

\* processBatchText with the lines of the text area, proceed being the answer
\* to the confirm dialog about duplicates
processBatchText(p, lines, proceed) ==
    IF Len(lines) = 0 \/ (checkDuplicates(lines).duplicates # {} /\ ~proceed)
    THEN finish(p, StartRun("processBatchText"), "early")
    ELSE textLoop(showLoading(updateResultsDisplay(
                    NewArray(p, checkDuplicates(lines).unique))),
                  StartRun("processBatchText"))

processBatchPDF(p) ==
    IF Len(p.pdfFiles) = 0 THEN finish(p, StartRun("processBatchPDF"), "early")
    ELSE pdfLoop(showLoading(updateResultsDisplay(
                    NewArray(p, [k \in 1..Len(p.pdfFiles) |-> p.pdfFiles[k].name]))),
                 StartRun("processBatchPDF"))

\* a click on Process All (enabled unless showLoading disabled it)
ClickProcess ==
    /\ ~env.loading
    /\ env.clicks < MaxClicks
    /\ \E s \in Slots :
        /\ FreeSlot(s)
        /\ IF env.activeTab = "text"
           THEN \E lines \in SeqsUpTo(BatchLines, MaxBatch), proceed \in BOOLEAN :
                    Becomes(s, processBatchText(NewController(Clicked, s), lines, proceed),
                            "processBatch")
           ELSE Becomes(s, processBatchPDF(NewController(Clicked, s)), "processBatch")

\* a click on Retry Failed (shown by updateResultsDisplay while an entry has
\* failed)
ClickRetry ==
    /\ env.retryShown /\ ~env.hidden
    /\ env.clicks < MaxClicks
    /\ \E k \in 1..Len(env.batchEntries) : env.batchEntries[k].status = "error"
    /\ \E s \in Slots :
        /\ FreeSlot(s)
        /\ Becomes(s, retryLoop(updateResultsDisplay(resetFailed(
                            showLoading(NewController(Clicked, s)))),
                        [StartRun("retryFailed") EXCEPT !.seen = seenOfSuccessful(env)]),
                   "retryFailed")

\* a click on Cancel
ClickCancel ==
    /\ Running # {}
    /\ ~env.cancelled
    /\ env.clicks < MaxClicks
    /\ env' = [Clicked EXCEPT !.abortController = IF @ = "null" THEN "null" ELSE "aborted",
                           !.cancelled = TRUE]
    /\ op' = "cancelOperation"
    /\ pc' = "idle"
    /\ UNCHANGED <<arg, arg2, ret, ret2>>

\* a click on Clear All, confirmed
ClickClearAll ==
    /\ env.clicks < MaxClicks
    /\ ~env.hidden
    /\ env' = [Clicked EXCEPT !.batchEntries = <<>>, !.array = @ + 1, !.pdfFiles = <<>>,
                           !.hidden = TRUE]
    /\ op' = "clearAllEntries"
    /\ pc' = "idle"
    /\ UNCHANGED <<arg, arg2, ret, ret2>>

SwitchTab ==
    /\ env.clicks < MaxClicks
    /\ env' = [Clicked EXCEPT !.activeTab = IF @ = "text" THEN "pdf" ELSE "text"]
    /\ op' = "switchTab"
    /\ pc' = "idle"
    /\ UNCHANGED <<arg, arg2, ret, ret2>>

\* a PDF file is dropped on the upload area
AddFile ==
    /\ Len(env.pdfFiles) < MaxBatch
    /\ env.clicks < MaxClicks
    /\ \E file \in BatchFiles :
        env' = [Clicked EXCEPT !.pdfFiles = Append(@, file)]
    /\ op' = "handleFileInput"
    /\ pc' = "idle"
    /\ UNCHANGED <<arg, arg2, ret, ret2>>

\* a click on the remove button of a file
RemoveFile ==
    /\ env.clicks < MaxClicks
    /\ \E k \in 1..Len(env.pdfFiles) :
        env' = [Clicked EXCEPT !.pdfFiles =
                    SubSeq(@, 1, k - 1) \o SubSeq(@, k + 1, Len(@))]
    /\ op' = "removePDFFile"
    /\ pc' = "idle"
    /\ UNCHANGED <<arg, arg2, ret, ret2>>

\* an await of a run settles and the run goes on to its next await
ResumeUrl ==
    \E s \in Running :
        /\ RunOf(s).at = "url"
        /\ \E result \in UrlResults : Becomes(s, afterUrl(env, RunOf(s), result), FunctionOf(RunOf(s)))

ResumePdf ==
    \E s \in Running :
        /\ RunOf(s).at = "pdf"
        /\ Becomes(s, afterPdf(env, RunOf(s)), FunctionOf(RunOf(s)))

ResumeMetadata ==
    \E s \in Running :
        /\ RunOf(s).at = "metadata"
        /\ \E success \in BOOLEAN :
            Becomes(s, afterMetadata(env, RunOf(s), success), FunctionOf(RunOf(s)))

ResumeSleep ==
    \E s \in Running :
        /\ RunOf(s).at = "sleep"
        /\ Becomes(s, loopOf(env, [RunOf(s) EXCEPT !.i = @ + 1]), FunctionOf(RunOf(s)))

BatchNext ==
    \/ ClickProcess
    \/ ClickRetry
    \/ ClickCancel
    \/ ClickClearAll
    \/ SwitchTab
    \/ AddFile
    \/ RemoveFile
    \/ ResumeUrl
    \/ ResumePdf
    \/ ResumeMetadata
    \/ ResumeSleep

SpecBatch == BatchInit /\ [][BatchNext]_vars


(***************************************************************************)
(* The properties.                                                         *)
(***************************************************************************)

\* ^10\.\d{4,9}/.{5,} : "10.", four to nine digits, "/", and five characters
\* of one line, stated without the operators of normalizeDOI
DoiShape(s) ==
    /\ Len(s) >= 3 /\ SubSeq(s, 1, 3) = "10."
    /\ \E n \in 4..9 :
          /\ Len(s) >= 3 + n + 1 + 5
          /\ \A k \in 4..(3 + n) : Char(s, k) \in Digits
          /\ Char(s, 3 + n + 1) = "/"
          /\ \A k \in (3 + n + 2)..(3 + n + 6) : Char(s, k) \notin LineTerminators

\* what precedes and what follows the DOI part of the input of normalizeDOI
PrefixOfInput == SubSeq(arg.input, 1, arg.doiFrom - 1)
SuffixOfInput == SubSeq(arg.input, arg.doiTo + 1, Len(arg.input))

\* C1: normalizeDOI is idempotent on its non-null results: for every input x
\* with normalizeDOI(x) = r and r not null, normalizeDOI(r) = r.
C1_Idempotent ==
    (op = "normalizeDOI" /\ arg2.kind = "result") => ret2 = ret.doi

\* a clean valid DOI: it has the shape of a DOI, at least 15 characters, no
\* whitespace, and neither starts nor ends with punctuation normalizeDOI strips
CleanValidDOI(d) ==
    /\ DoiShape(d)
    /\ Len(d) >= 15
    /\ \A k \in 1..Len(d) : Char(d, k) \notin Whitespace
    /\ Char(d, 1) \notin LeadingPunct
    /\ Char(d, Len(d)) \notin TrailingPunct

\* C2: normalizeDOI is the identity on clean valid DOIs: for every clean
\* valid DOI d, normalizeDOI(d) = d.
C2_IdentityOnCleanDOIs ==
    (op = "normalizeDOI" /\ CleanValidDOI(arg.input)) => ret.doi = arg.input

\* C3: every non-null result of normalizeDOI has the shape ^10\.\d{4,9}/.{5,}
\* and at least 15 characters, so the truncated 10.1016/S1 yields null; and
\* isValidDOI(x) is true exactly when normalizeDOI(x) is not null.
C3_ResultsAreValid ==
    /\ (op = "normalizeDOI" /\ ret.doi # NULL)
           => (DoiShape(ret.doi) /\ Len(ret.doi) >= 15)
    /\ (op = "normalizeDOI" /\ arg2.kind # "none" /\ ret2 # NULL)
           => (DoiShape(ret2) /\ Len(ret2) >= 15)
    /\ (op = "normalizeDOI" /\ arg.input = "10.1016/S1") => ret.doi = NULL
    /\ op = "isValidDOI" => (ret.valid <=> (normalizeDOI(arg.input) # NULL))

\* C3's case: an input that normalizeDOI had to change gave a DOI
C3_Witness ==
    op = "normalizeDOI" /\ ret.doi # NULL /\ ret.doi # arg.input

\* the forms normalizeDOI accepts: a bare DOI, a DOI after doi:, and a
\* doi.org or a publisher URL, with nothing after the DOI
AcceptedForm ==
    /\ PrefixOfInput \in {"", "doi:", "doi: ", "https://doi.org/",
                          "http://dx.doi.org/", "https://www.pnas.org/doi/full/"}
    /\ SuffixOfInput = ""
    /\ ret.doi # NULL

\* C4: whitespace inside the identifier does not change the result: for
\* every input x in a form normalizeDOI accepts and every x' that has spaces,
\* tabs or line breaks inserted in the DOI part, normalizeDOI(x') = normalizeDOI(x).
C4_WhitespaceInsideDOI ==
    (op = "normalizeDOI" /\ arg2.kind = "wrapped" /\ AcceptedForm) => ret2 = ret.doi

\* the number of times the word w occurs in words
RECURSIVE Occurrences(_, _)
Occurrences(words, w) ==
    IF words = <<>> THEN 0
    ELSE (IF Head(words) = w THEN 1 ELSE 0) + Occurrences(Tail(words), w)

\* ordinary words among which the DOI d occurs twice
SameDoiTwice(words, d) ==
    /\ Range(words) \subseteq OrdinaryWords \cup {d}
    /\ Occurrences(words, d) = 2

\* C5: for every text of ordinary words in which one and the same DOI occurs
\* twice, detectDOIsFromText returns an array of exactly one element: the
\* repeated occurrence is de-duplicated and no other candidate is reported.
C5_RepeatedDoiOnce ==
    (op = "detectDOIsFromText" /\ SameDoiTwice(arg.words, "10.1000/xyz12345"))
        => Len(ret.dois) = 1

\* no two entries of dois are equal when letter case is ignored
NoTwoEqualIgnoringCase(dois) ==
    \A i, j \in 1..Len(dois) :
        i # j => toLowerCase(dois[i]) # toLowerCase(dois[j])

\* C6: the list of DOIs a detection returns (detectDOIsFromText,
\* detectDOIsFromMetaTags, detectDOIsFromDocument from either source) never
\* holds two entries that are equal when letter case is ignored; the entries
\* are appended as they are found, so they are in first-seen order.
C6_NoCaseInsensitiveDuplicates ==
    op \in {"detectDOIsFromText", "detectDOIsFromMetaTags", "detectDOIsFromDocument"}
        => NoTwoEqualIgnoringCase(ret.dois)

\* the visits of the <meta> elements of a document: <<t, a, p>> when the
\* element at position p has the t-th name of DOI_META_TAGS as its name
\* attribute (a = 1) or as its property attribute (a = 2)
Visits(document) ==
    {v \in (1..Len(DOI_META_TAGS)) \X {1, 2} \X (1..Len(document.metas)) :
        \/ v[2] = 1 /\ document.metas[v[3]].name = DOI_META_TAGS[v[1]]
        \/ v[2] = 2 /\ document.metas[v[3]].property = DOI_META_TAGS[v[1]]}

\* the DOI the element of visit v carries, NULL when it carries none
CarriedDoi(document, v) == normalizeDOI(document.metas[v[3]].content)

\* the DOIs the known <meta> elements of the document carry
CarriedDois(document) ==
    {CarriedDoi(document, v) : v \in Visits(document)} \ {NULL}

\* visit v comes before visit w: an earlier name of DOI_META_TAGS, or the
\* same name and name= before property=, or both the same and an earlier element
VisitBefore(v, w) ==
    \/ v[1] < w[1]
    \/ v[1] = w[1] /\ v[2] < w[2]
    \/ v[1] = w[1] /\ v[2] = w[2] /\ v[3] < w[3]

\* d is carried by a visit that comes before every visit carrying e
FirstVisitedBefore(document, d, e) ==
    \E v \in Visits(document) :
        /\ CarriedDoi(document, v) = d
        /\ \A w \in Visits(document) :
               CarriedDoi(document, w) = e => VisitBefore(v, w)

\* the position of the first known <meta> element that carries d
FirstPosition(document, d) ==
    Min({v[3] : v \in {w \in Visits(document) : CarriedDoi(document, w) = d}})

\* C7 as stated: detectDOIsFromMetaTags returns the DOIs in document order: if
\* a meta tag carrying DOI a precedes in the document a meta tag carrying a
\* different DOI b, then a precedes b in the result, whatever the names of
\* the two tags and whether they use name= or property=.
C7_DocumentOrder ==
    op = "detectDOIsFromMetaTags" =>
        \A i, j \in 1..Len(ret.dois) :
            (/\ toLowerCase(ret.dois[i]) # toLowerCase(ret.dois[j])
             /\ FirstPosition(arg, ret.dois[i]) < FirstPosition(arg, ret.dois[j]))
                => i < j

\* C7, amended: detectDOIsFromMetaTags returns each DOI a known meta tag
\* carries once, ordered by the position of the tag's name in DOI_META_TAGS,
\* under one name the name= elements before the property= elements, and
\* among those in document order.
C7_TagListOrder ==
    op = "detectDOIsFromMetaTags" =>
        /\ Range(ret.dois) = CarriedDois(arg)
        /\ \A i, j \in 1..Len(ret.dois) :
               i < j => /\ ret.dois[i] # ret.dois[j]
                        /\ FirstVisitedBefore(arg, ret.dois[i], ret.dois[j])

\* C7's case: the later element of the document carries the first DOI of the result
C7_Witness ==
    /\ op = "detectDOIsFromMetaTags"
    /\ Len(arg.metas) = 2
    /\ Len(ret.dois) = 2
    /\ ret.dois[1] = normalizeDOI(arg.metas[2].content)
    /\ ret.dois[2] = normalizeDOI(arg.metas[1].content)
    /\ toLowerCase(ret.dois[1]) # toLowerCase(ret.dois[2])

\* C8: detectDOIsFromDocument returns source 'meta-tag' with exactly the DOIs
\* of the meta tags whenever a known meta tag carries a valid DOI, and source
\* 'regex' with the DOIs of the body text only when no meta tag carries one;
\* DOIs of the body text are never mixed into a meta-tag result.
C8_MetaTagsElseBodyText ==
    op = "detectDOIsFromDocument" =>
        /\ ret.source \in {"meta-tag", "regex"}
        /\ ret.source = "meta-tag" <=> CarriedDois(arg) # {}
        /\ ret.source = "meta-tag" =>
               /\ Range(ret.dois) = CarriedDois(arg)
               /\ ret.dois = detectDOIsFromMetaTags(arg)
        /\ ret.source = "regex" => ret.dois = detectDOIsFromText(arg.body)

\* C8's case: a meta tag carries a DOI and the body text holds another DOI
C8_Witness ==
    /\ op = "detectDOIsFromDocument"
    /\ ret.source = "meta-tag"
    /\ detectDOIsFromText(arg.body) # <<>>
    /\ Range(detectDOIsFromText(arg.body)) \cap Range(ret.dois) = {}

\* the DOIs in the identifier, @id and doi fields of the JSON-LD scripts
JsonLdFieldDois(document) ==
    {normalizeDOI(f) :
        f \in UNION {{document.scripts[i].identifier, document.scripts[i].id,
                      document.scripts[i].doi} \ {ABSENT} :
                     i \in {k \in 1..Len(document.scripts) : document.scripts[k].valid}}}
    \ {NULL}

\* the result of the first source that has a DOI, v being the result given
FirstSourceWins(v, fullUrl, document) ==
    IF detectDOIsFromMetaTags(document) # <<>>
    THEN v = detectDOIsFromMetaTags(document)[1]
    ELSE IF normalizeDOI(fullUrl) # NULL THEN v = normalizeDOI(fullUrl)
    ELSE IF JsonLdFieldDois(document) # {} THEN v \in JsonLdFieldDois(document)
    ELSE IF detectDOIsFromText(document.body) # <<>>
    THEN v = detectDOIsFromText(document.body)[1]
    ELSE v = NULL

\* C9: fetchDOIFromURL consults the meta tags, the URL itself, the JSON-LD
\* fields identifier, @id and doi, and the body text, in this order, and
\* returns the DOI of the first source that has a valid one, null when none
\* has; a valid DOI in any of the three JSON-LD fields is a hit.
C9_FirstSourceWins ==
    (op = "fetchDOIFromURL" /\ pc = "done" /\ env.parse = "ok")
        => /\ ret.state = "resolved"
           /\ FirstSourceWins(ret.value, fullUrlOf(arg.url), env.doc)

\* C10: a network failure (fetch rejects, or the response is not OK) or a
\* failure to parse the page is propagated to the caller of fetchDOIFromURL
\* as a rejection; it is not reported as the value null.
C10_FailuresAreRejections ==
    (/\ op = "fetchDOIFromURL"
     /\ pc = "done"
     /\ env.fetch \in {"rejected", "not-ok"} \/ env.parse = "failed")
        => ret.state = "rejected"

(***************************************************************************)
(* The properties of the citation formatters.                              *)
(***************************************************************************)

\* p occurs in the string s
Contains(s, p) == \E i \in 1..(Len(s) - Len(p) + 1) : StartsAt(s, i, p)

\* the first position of p in s, 0 when p does not occur
IndexOf(s, p) == MinOr({i \in 1..(Len(s) - Len(p) + 1) : StartsAt(s, i, p)}, 0)

\* a call of formatReference or formatBibTeX has been made
FormattedRecord == op \in {"formatReference", "formatBibTeX"}

\* C11: no formatter throws on incomplete metadata: whatever optional fields
\* are absent, with the author list empty or absent and the title missing or
\* empty, formatReference of each of the five styles and formatBibTeX return
\* a string, and a reference names a missing author list by the bracketed
\* marker "[No author]".
C11_FormattersNeverThrow ==
    FormattedRecord =>
        /\ ~ret.threw
        /\ (op = "formatReference" /\ noAuthors(arg.meta))
                => Contains(ret.text, "[No author]")

\* The truncation table of the specification: the authors of a list of n that
\* a style lists, as their positions in the list ...
ListedAuthors(style, n) ==
    CASE style = "apa" -> IF n <= 20 THEN [k \in 1..n |-> k]
                          ELSE [k \in 1..20 |-> IF k <= 19 THEN k ELSE n]
      [] style = "mla" -> IF n <= 2 THEN [k \in 1..n |-> k] ELSE <<1>>
      [] style = "chicago" -> IF n <= 10 THEN [k \in 1..n |-> k] ELSE [k \in 1..7 |-> k]
      [] style \in {"vancouver", "ieee"} ->
            IF n <= 6 THEN [k \in 1..n |-> k] ELSE [k \in 1..6 |-> k]

\* ... what stands before the last listed author (", " stands before the
\* other ones) ...
BeforeLastListed(style, n) ==
    CASE style = "apa" -> IF n <= 20 THEN ", & " ELSE ", ... "
      [] style = "mla" -> ", and "
      [] style = "chicago" -> IF n <= 10 THEN ", and " ELSE ", "
      [] style = "vancouver" -> ", "
      [] style = "ieee" -> IF n = 2 THEN " and " ELSE IF n <= 6 THEN ", and " ELSE ", "

\* ... and what follows the listed authors
AfterListed(style, n) ==
    CASE style = "apa" -> ""
      [] style = "mla" -> IF n >= 3 THEN ", et al" ELSE ""
      [] style = "chicago" -> IF n > 10 THEN ", et al" ELSE ""
      [] style = "vancouver" -> IF n >= 7 THEN ", et al" ELSE ""
      [] style = "ieee" -> IF n >= 7 THEN ", et al." ELSE ""

\* one author as the style writes it at position k of its list
RenderedAuthor(style, author, k) ==
    CASE style = "apa" -> formatAuthorAPA(author)
      [] style \in {"mla", "chicago"} ->
            IF k = 1 THEN formatFirstAuthor(author) ELSE formatOtherAuthor(author)
      [] style = "vancouver" -> formatAuthorVancouver(author)
      [] style = "ieee" -> formatAuthorIEEE(author)

RECURSIVE RenderedFrom(_, _, _, _)
RenderedFrom(style, authors, listed, k) ==
    IF k > Len(listed) THEN AfterListed(style, Len(authors))
    ELSE (IF k = 1 THEN ""
          ELSE IF k = Len(listed) THEN BeforeLastListed(style, Len(authors))
          ELSE ", ")
            \o RenderedAuthor(style, authors[listed[k]], listed[k])
            \o RenderedFrom(style, authors, listed, k + 1)

TableRendering(style, authors) ==
    RenderedFrom(style, authors, ListedAuthors(style, Len(authors)), 1)

\* the family names of the authors i < j of the list both occur, i's first
InInputOrder(text, authors) ==
    \A i, j \in 1..Len(authors) :
        (i < j /\ Contains(text, FamilyOf(i)) /\ Contains(text, FamilyOf(j)))
            => IndexOf(text, FamilyOf(i)) < IndexOf(text, FamilyOf(j))

\* a call of formatAuthors with a list of at least one author
FormattedAuthors ==
    op = "formatAuthors" /\ "authors" \in DOMAIN arg.o /\ Len(arg.o.authors) >= 1

WithoutFamily(author) == ~Truthy(Get(author, "family"))

\* what the specification writes for an author without family name: the full
\* name, the marker when there is none
FallbackName(author, marker) ==
    IF Truthy(Get(author, "full")) THEN author.full ELSE marker

\* the positions of the authors an in-text citation names: both of two in
\* APA and MLA, else the first
InTextNamed(style, n) ==
    IF style \in {"apa", "mla"} /\ n = 2 THEN {1, 2} ELSE {1}

\* the in-text form names authors: the parenthetical form of the number-based
\* styles is the number alone
NamesAuthors(style, variant) == style \in {"apa", "mla"} \/ variant = "narrative"

\* C13: author name fallback in all five styles: an author without family is
\* rendered by its full name; an author with neither family nor full is
\* rendered as "[Unknown]" in reference lists and as "Unknown" in in-text
\* citations; an empty author list is rendered as "[No author]" in both.
C13_AuthorNameFallback ==
    /\ op = "formatAuthors" =>
        IF noAuthors(arg.o) THEN ret.text = "[No author]"
        ELSE /\ \A k \in Range(ListedAuthors(arg.style, Len(arg.o.authors))) :
                    WithoutFamily(arg.o.authors[k])
                        => Contains(ret.text, FallbackName(arg.o.authors[k], "[Unknown]"))
             /\ (Len(arg.o.authors) = 1 /\ WithoutFamily(arg.o.authors[1]))
                    => ret.text = FallbackName(arg.o.authors[1], "[Unknown]")
    /\ (op = "formatInText" /\ NamesAuthors(arg.style, arg.variant)) =>
        IF noAuthors(arg.o) THEN Contains(ret.text, "[No author]")
        ELSE \A k \in InTextNamed(arg.style, Len(arg.o.authors)) :
                WithoutFamily(arg.o.authors[k])
                    => /\ Contains(ret.text, FallbackName(arg.o.authors[k], "Unknown"))
                       /\ ~Contains(ret.text, "[Unknown]")

\* an in-text citation of one author who has neither family nor full name
C13_Witness ==
    /\ op = "formatInText"
    /\ arg.variant = "narrative"
    /\ ~noAuthors(arg.o)
    /\ Len(arg.o.authors) = 1
    /\ WithoutFamily(arg.o.authors[1])
    /\ ~Truthy(Get(arg.o.authors[1], "full"))
    /\ StartsAt(ret.text, 1, "Unknown")

\* the record has the properties CitationMetadata requires of every record
\* besides the DOI: a title and an author list, either of which may be empty
HasTitleAndAuthors(meta) == "title" \in DOMAIN meta /\ "authors" \in DOMAIN meta

\* a call of formatReference with such a record
FormattedReference == op = "formatReference" /\ HasTitleAndAuthors(arg.meta)

\* C14: DOI round trip: for every metadata record with a non-empty doi and
\* for each of the five styles, the formatReference output contains
\* "https://doi.org/<doi>" or "doi: <doi>" with the doi verbatim.
C14_DoiRoundTrip ==
    (FormattedReference /\ Truthy(Get(arg.meta, "doi"))) =>
        /\ ~ret.threw
        /\ \/ Contains(ret.text, "https://doi.org/" \o arg.meta.doi)
           \/ Contains(ret.text, "doi: " \o arg.meta.doi)

\* a Vancouver reference of a record that has both a DOI and a URL
C14_Witness ==
    /\ FormattedReference
    /\ arg.style = "vancouver"
    /\ Truthy(Get(arg.meta, "doi"))
    /\ Truthy(Get(arg.meta, "url"))
    /\ Contains(ret.text, "doi: " \o arg.meta.doi)

\* the identifier part of a reference is its last part
IdentifierPart == Last(ret.parts)

\* what stands before the URL of a record without DOI
UrlPrefix(style) ==
    CASE style = "vancouver" -> "Available from: "
      [] style = "ieee" -> "[Online]. Available: "
      [] style \in {"apa", "mla", "chicago"} -> ""

\* C15 as the specification states it: the identifier part is
\* "https://doi.org/<doi>" for APA, MLA and Chicago and "doi: <doi>." with the
\* trailing period for both Vancouver and IEEE; the url is rendered only when
\* doi is absent, after "Available from: " (Vancouver), "[Online].
\* Available: " (IEEE) or nothing (APA, MLA, Chicago).
C15_IdentifierAsSpecified ==
    (FormattedReference /\ ~ret.threw) =>
        IF Truthy(Get(arg.meta, "doi"))
        THEN /\ IF arg.style \in {"vancouver", "ieee"}
                THEN IdentifierPart = "doi: " \o arg.meta.doi \o "."
                ELSE StartsAt(IdentifierPart, 1, "https://doi.org/" \o arg.meta.doi)
             /\ Truthy(Get(arg.meta, "url")) => ~Contains(ret.text, arg.meta.url)
        ELSE Truthy(Get(arg.meta, "url"))
                => StartsAt(IdentifierPart, 1, UrlPrefix(arg.style) \o arg.meta.url)

\* the identifier part of each style as the code writes it, for a DOI ...
DoiPart(style, doi) ==
    CASE style = "apa" -> "https://doi.org/" \o doi
      [] style \in {"mla", "chicago"} -> "https://doi.org/" \o doi \o "."
      [] style = "vancouver" -> "doi: " \o doi
      [] style = "ieee" -> "doi: " \o doi \o "."

\* ... and for a URL
UrlPart(style, url) ==
    UrlPrefix(style) \o url \o (IF style \in {"mla", "chicago"} THEN "." ELSE "")

\* C15, amended: the identifier part is the last part of the reference; with a
\* doi it is "https://doi.org/<doi>" (APA), "https://doi.org/<doi>." (MLA,
\* Chicago), "doi: <doi>" without trailing period (Vancouver) or "doi: <doi>."
\* (IEEE); the url is rendered only when doi is absent, as "<url>" (APA),
\* "<url>." (MLA, Chicago), "Available from: <url>" (Vancouver) or
\* "[Online]. Available: <url>" (IEEE); with neither there is no identifier.
C15_IdentifierPart ==
    (FormattedReference /\ ~ret.threw) =>
        IF Truthy(Get(arg.meta, "doi"))
        THEN /\ IdentifierPart = DoiPart(arg.style, arg.meta.doi)
             /\ Truthy(Get(arg.meta, "url")) => ~Contains(ret.text, arg.meta.url)
        ELSE IF Truthy(Get(arg.meta, "url"))
        THEN IdentifierPart = UrlPart(arg.style, arg.meta.url)
        ELSE ~Contains(ret.text, "doi") /\ ~Contains(ret.text, "http")

\* a Vancouver reference of a record with a DOI ends with the DOI, no period
C15_Witness ==
    /\ FormattedReference
    /\ ~ret.threw
    /\ arg.style = "vancouver"
    /\ Truthy(Get(arg.meta, "doi"))
    /\ endsWith(ret.text, "doi: " \o arg.meta.doi)

\* the reference names the journal, as it is or, as APA writes it, in title case
JournalEmitted ==
    \/ Contains(ret.text, arg.meta.journal)
    \/ Contains(ret.text, toTitleCase(arg.meta.journal))

PublisherEmitted == Contains(ret.text, arg.meta.publisher)

\* C16: in every one of the five styles the container block is emitted
\* whenever journal is present, and the publisher fallback is emitted only
\* when journal is absent and containerType is "book": a present journal is
\* never dropped from the reference.
C16_JournalNeverDropped ==
    (FormattedReference /\ ~ret.threw) =>
        /\ Truthy(Get(arg.meta, "journal")) => JournalEmitted
        /\ (Truthy(Get(arg.meta, "publisher")) /\ PublisherEmitted)
                => (~Truthy(Get(arg.meta, "journal")) /\ isBook(arg.meta))

\* The container-block table of the specification.  The journal name as the
\* block shows it: in title case and italic in APA, plain in Vancouver,
\* italic in the other styles ...
BlockJournal(style, journal) ==
    CASE style = "apa" -> "<em>" \o toTitleCase(journal) \o "</em>"
      [] style = "vancouver" -> journal
      [] style \in {"mla", "chicago", "ieee"} -> "<em>" \o journal \o "</em>"

\* ... the fields after it in the style's order, each with the punctuation
\* before and after it ...
BlockFields(style) ==
    CASE style = "apa" ->
            <<<<"volume", ", <em>", "</em>">>, <<"issue", "(", ")">>, <<"pages", ", ", "">>>>
      [] style = "mla" ->
            <<<<"volume", ", vol. ", "">>, <<"issue", ", no. ", "">>,
              <<"year", ", ", "">>, <<"pages", ", pp. ", "">>>>
      [] style = "chicago" ->
            <<<<"volume", " ", "">>, <<"issue", ", no. ", "">>,
              <<"year", " (", ")">>, <<"pages", ": ", "">>>>
      [] style = "vancouver" ->
            <<<<"year", ". ", "">>, <<"volume", ";", "">>,
              <<"issue", "(", ")">>, <<"pages", ":", "">>>>
      [] style = "ieee" ->
            <<<<"volume", ", vol. ", "">>, <<"issue", ", no. ", "">>,
              <<"pages", ", pp. ", "">>, <<"year", ", ", "">>>>

\* ... and the character that ends the block
BlockEnd(style) == IF style = "ieee" THEN "," ELSE "."

\* the fields of the table that the record has, each with its punctuation
RECURSIVE PresentFields(_, _)
PresentFields(meta, fields) ==
    IF fields = <<>> THEN ""
    ELSE (IF Truthy(Get(meta, Head(fields)[1]))
          THEN Head(fields)[2] \o meta[Head(fields)[1]] \o Head(fields)[3]
          ELSE "")
            \o PresentFields(meta, Tail(fields))

TableBlock(style, meta) ==
    BlockJournal(style, meta.journal)
        \o PresentFields(meta, BlockFields(style)) \o BlockEnd(style)

\* the block of a record that has all of the fields, written out
FullBlock(style, j, v, i, p, y) ==
    CASE style = "apa" ->
            "<em>" \o toTitleCase(j) \o "</em>, <em>" \o v \o "</em>(" \o i \o "), " \o p \o "."
      [] style = "mla" ->
            "<em>" \o j \o "</em>, vol. " \o v \o ", no. " \o i \o ", " \o y \o ", pp. " \o p \o "."
      [] style = "chicago" ->
            "<em>" \o j \o "</em> " \o v \o ", no. " \o i \o " (" \o y \o "): " \o p \o "."
      [] style = "vancouver" ->
            j \o ". " \o y \o ";" \o v \o "(" \o i \o "):" \o p \o "."
      [] style = "ieee" ->
            "<em>" \o j \o "</em>, vol. " \o v \o ", no. " \o i \o ", pp. " \o p \o ", " \o y \o ","

AllBlockFields(meta) ==
    \A f \in {"volume", "issue", "pages", "year"} : Truthy(Get(meta, f))

\* a reference of a record that is no book and has a journal
FormattedArticle ==
    /\ FormattedReference
    /\ ~ret.threw
    /\ ~isBook(arg.meta)
    /\ Truthy(Get(arg.meta, "journal"))

AuthorBlock ==
    IF arg.style \in {"vancouver", "ieee"} THEN ret.parts[2] ELSE ret.parts[1]

\* the editor label of the specification for a list of n authors, and what
\* ends the author block after it
EditorLabel(style, n) ==
    CASE style = "apa" -> IF n = 1 THEN " (Ed.)" ELSE " (Eds.)"
      [] style = "mla" -> IF n = 1 THEN ", editor" ELSE ", editors"
      [] style = "chicago" -> IF n = 1 THEN ", ed" ELSE ", eds"
      [] style = "ieee" -> IF n = 1 THEN ", Ed." ELSE ", Eds."
      [] style = "vancouver" -> ", editors"

BlockTerminator(style) == IF style = "ieee" THEN "," ELSE "."

\* the authors as the block names them: in APA without their final period,
\* before which the label is inserted
NamesBeforeLabel(style, meta) ==
    IF style = "apa" /\ endsWith(formatAuthorsAPA(meta), ".")
    THEN AllButLast(formatAuthorsAPA(meta))
    ELSE formatAuthors(style, meta)

\* a reference of an edited work
FormattedEditedWork ==
    FormattedReference /\ ~ret.threw /\ isEditedWork(arg.meta)

\* C18: when isEditedWork is set, the editor label is singular exactly when
\* the author list has one entry and plural otherwise (Chicago ", ed" /
\* ", eds"; MLA ", editor" / ", editors"; IEEE ", Ed." / ", Eds."; Vancouver
\* always ", editors"), and in APA the label " (Ed.)" / " (Eds.)" is inserted
\* before the author block's final period, so that the block ends with
\* " (Ed.)." or " (Eds.)." and exactly one period.
C18_EditorLabel ==
    FormattedEditedWork =>
        /\ AuthorBlock = NamesBeforeLabel(arg.style, arg.meta)
                            \o EditorLabel(arg.style, Len(arg.meta.authors))
                            \o BlockTerminator(arg.style)
        /\ arg.style = "apa" =>
                /\ endsWith(AuthorBlock, IF Len(arg.meta.authors) = 1 THEN " (Ed.)." ELSE " (Eds.).")
                /\ ~endsWith(AuthorBlock, "..")

\* APA references of edited works by one editor whose name ends with a
\* period and by two editors
C18_Witness ==
    /\ FormattedEditedWork
    /\ arg.style = "apa"
    /\ \/ AuthorBlock = "Ason, J. P (Ed.)."
       \/ AuthorBlock = "Ason, J. P., & Bson, M (Eds.)."

\* a narrative in-text citation of a number-based style for a list of at
\* least one author
FormattedNumberNarrative ==
    /\ op = "formatInText"
    /\ arg.variant = "narrative"
    /\ arg.style \in {"chicago", "ieee", "vancouver"}
    /\ ~noAuthors(arg.o)

\* the reference number as the style writes it after the name
NumberAfterName(style, n) ==
    CASE style = "chicago" -> "[" \o ToString(n) \o "]"
      [] style = "ieee" -> " [" \o ToString(n) \o "]"
      [] style = "vancouver" -> " (" \o ToString(n) \o ")"

\* C19 as the specification states it: for the number-based styles (Chicago,
\* IEEE, Vancouver) the narrative in-text citation contains "et al." exactly
\* when the record has 2 or more authors: one author gives the bare
\* first-author name with the reference number, 2 or more always give the
\* first author plus "et al.".
C19_EtAlFromTwoAuthors ==
    FormattedNumberNarrative =>
        /\ Contains(ret.text, "et al.") <=> Len(arg.o.authors) >= 2
        /\ StartsAt(ret.text, 1, NameOr(arg.o.authors[1], "Unknown"))
        /\ endsWith(ret.text, NumberAfterName(arg.style, arg.refNumber))

\* C19, amended: the narrative in-text citation of IEEE and Vancouver is the
\* first author's name followed by " et al." exactly when the list has 2 or
\* more authors, whatever their number, and by the reference number (" [N]",
\* " (N)"); that of Chicago is the first author's name followed by "[N]" and
\* never contains "et al.".
C19_EtAlInIeeeAndVancouver ==
    FormattedNumberNarrative =>
        ret.text = NameOr(arg.o.authors[1], "Unknown")
                    \o (IF arg.style # "chicago" /\ Len(arg.o.authors) >= 2
                        THEN " et al." ELSE "")
                    \o NumberAfterName(arg.style, arg.refNumber)

\* a Chicago narrative citation of several authors without "et al.", and an
\* IEEE one of two authors with it
C19_Witness ==
    /\ FormattedNumberNarrative
    /\ \/ /\ arg.style = "chicago"
          /\ Len(arg.o.authors) >= 2
          /\ ret.text = "Ason[12]"
       \/ /\ arg.style = "ieee"
          /\ Len(arg.o.authors) = 2
          /\ ret.text = "Ason et al. [12]"

\* an in-text citation of APA or MLA for a list of at least one author
FormattedAuthorInText ==
    /\ op = "formatInText"
    /\ arg.style \in {"apa", "mla"}
    /\ ~noAuthors(arg.o)

\* the authors an APA or MLA in-text citation names: the single author, both
\* of two (joined by "&" in the parenthetical form of APA, by "and"
\* elsewhere), the first and "et al." from three on
NamedAuthors(style, variant, authors) ==
    IF Len(authors) = 1 THEN NameOr(authors[1], "Unknown")
    ELSE IF Len(authors) = 2
    THEN NameOr(authors[1], "Unknown")
            \o (IF style = "apa" /\ variant = "parenthetical" THEN " & " ELSE " and ")
            \o NameOr(authors[2], "Unknown")
    ELSE NameOr(authors[1], "Unknown") \o " et al."

\* the year of an APA citation
YearOrNoDate(year) == IF Truthy(year) THEN year ELSE "n.d."

\* C20: APA and MLA in-text citations name the single author for 1 author,
\* both authors for 2 authors, and the first author followed by "et al." for
\* 3 or more; the parenthetical form is wrapped in parentheses and the
\* narrative form is not; APA joins two authors with "&" in the parenthetical
\* form and "and" in the narrative form, and uses "n.d." when the year is
\* absent.
C20_AuthorInText ==
    FormattedAuthorInText =>
        ret.text =
            CASE arg.style = "apa" /\ arg.variant = "parenthetical" ->
                    "(" \o NamedAuthors("apa", "parenthetical", arg.o.authors)
                        \o ", " \o YearOrNoDate(arg.year) \o ")"
              [] arg.style = "apa" /\ arg.variant = "narrative" ->
                    NamedAuthors("apa", "narrative", arg.o.authors)
                        \o " (" \o YearOrNoDate(arg.year) \o ")"
              [] arg.style = "mla" /\ arg.variant = "parenthetical" ->
                    "(" \o NamedAuthors("mla", "parenthetical", arg.o.authors) \o ")"
              [] arg.style = "mla" /\ arg.variant = "narrative" ->
                    NamedAuthors("mla", "narrative", arg.o.authors)

\* an APA parenthetical citation of two authors without year, and an MLA
\* narrative citation of three or more
C20_Witness ==
    /\ FormattedAuthorInText
    /\ \/ /\ arg.style = "apa"
          /\ arg.variant = "parenthetical"
          /\ Len(arg.o.authors) = 2
          /\ ret.text = "(Ason & Bson, n.d.)"
       \/ /\ arg.style = "mla"
          /\ arg.variant = "narrative"
          /\ Len(arg.o.authors) >= 3
          /\ ret.text = "Ason et al."

(***************************************************************************)
(* The BibTeX emitter.                                                     *)
(***************************************************************************)
FormattedBibTeX == op = "formatBibTeX" /\ ~ret.threw

BibTeXSpecials == {"&", "%", "$", "#", "_", "{", "}"}

\* one character of a value as BibTeX wants it written
EscapedChar(c) ==
    IF c = "\\" THEN "\\textbackslash "
    ELSE IF c \in BibTeXSpecials THEN "\\" \o c
    ELSE c

RECURSIVE EscapedOnce(_)
EscapedOnce(s) ==
    IF s = "" THEN "" ELSE EscapedChar(Char(s, 1)) \o EscapedOnce(SubSeq(s, 2, Len(s)))

FieldLine(key, value) == "  " \o key \o " = {" \o value \o "},"

\* the value each BibTeX field is taken from
BibTeXValue(meta, key) ==
    CASE key = "author" -> formatAuthorsBibTeX(meta)
      [] key = "number" -> Get(meta, "issue")
      [] OTHER -> Get(meta, key)

EscapedFields == {"author", "title", "journal", "publisher"}
VerbatimFields == {"year", "volume", "number", "pages", "doi", "url"}

EmitsEscaped(key) ==
    Truthy(BibTeXValue(arg.meta, key)) =>
        includes(ret.parts, FieldLine(key, EscapedOnce(BibTeXValue(arg.meta, key))))

EmitsVerbatim(key) ==
    Truthy(BibTeXValue(arg.meta, key)) =>
        includes(ret.parts, FieldLine(key, BibTeXValue(arg.meta, key)))

\* C21 as stated: every field value formatBibTeX emits has each occurrence of
\* \ & % $ # _ { } escaped exactly once.
C21_EveryFieldEscaped ==
    FormattedBibTeX => \A key \in EscapedFields \cup VerbatimFields : EmitsEscaped(key)

\* C21: in formatBibTeX output the author, title, journal and publisher values
\* have each occurrence of \ & % $ # _ { } escaped exactly once (a backslash
\* becomes \textbackslash and a space, the others get one backslash before
\* them), and the year, volume, number, pages, doi and url values are written
\* as they are in the record.
C21_TextFieldsEscaped ==
    FormattedBibTeX =>
        /\ \A key \in EscapedFields : EmitsEscaped(key)
        /\ \A key \in VerbatimFields : EmitsVerbatim(key)

C21_Witness ==
    /\ FormattedBibTeX
    /\ Get(arg.meta, "title") = "50% & more"
    /\ includes(ret.parts, "  title = {50\\% \\& more},")
    /\ includes(ret.parts, "  doi = {10.1000/abc_def},")

\* the citation key of the entry formatBibTeX returned: the text between
\* "@type{" and the "," that ends the first line
EntryKey ==
    SubSeq(ret.parts[1], Len(getBibTeXType(arg.meta)) + 3, Len(ret.parts[1]) - 1)

FirstAuthorNamed ==
    /\ Len(arg.meta.authors) > 0
    /\ Truthy(Get(arg.meta.authors[1], "family")) \/ Truthy(Get(arg.meta.authors[1], "full"))

FirstAuthorName ==
    IF Truthy(Get(arg.meta.authors[1], "family")) THEN arg.meta.authors[1].family
    ELSE arg.meta.authors[1].full

HasWhitespace(s) == \E i \in 1..Len(s) : Char(s, i) \in Whitespace

\* C22: the citation key is the lowercased family name of the first author,
\* or without a family name the lowercased full name, with all whitespace
\* removed, then "_" and the year or "nd"; the key never contains whitespace.
C22_KeyWithoutWhitespace ==
    FormattedBibTeX /\ FirstAuthorNamed /\ RemoveWhitespace(FirstAuthorName) /= "" =>
        /\ EntryKey = RemoveWhitespace(toLowerCase(FirstAuthorName)) \o "_"
                        \o Either(Get(arg.meta, "year"), "nd")
        /\ ~HasWhitespace(EntryKey)

(***************************************************************************)
(* fetchMetadata: the order of the sources.                                *)
(***************************************************************************)
FetchReturned == op = "fetchMetadata" /\ pc = "done"

\* the call was answered from the cache: it succeeded and no API was awaited
ServedFromCache == FetchReturned /\ ret.success /\ env.yielded = NothingYielded

\* the call was answered by an API
ServedBy(api) == FetchReturned /\ ret.success /\ env.yielded[api] = "record"

CacheHolds(doi, record) ==
    /\ CACHE_PREFIX \o doi \in DOMAIN env.cache
    /\ env.cache[CACHE_PREFIX \o doi].metadata = record
    /\ env.cache[CACHE_PREFIX \o doi].timestamp = env.now

SourceOrder ==
    /\ ServedFromCache => env.requests = NoRequests
    /\ env.requests["datacite"] > 0 => env.yielded["crossref"] = "nothing"
    /\ env.yielded["crossref"] = "record" => env.requests["datacite"] = 0
    /\ \A api \in Apis :
            ServedBy(api) => ret.data = RecordFrom(api, arg.doi) /\ ret.source = api

\* C23 as stated: the sources are consulted in the order cache, CrossRef,
\* DataCite up to the first that yields a record, the result is a failure only
\* when both APIs yielded nothing, and a record an API supplied is in the
\* cache when it is returned.
C23_SourceOrderAndWrite ==
    /\ SourceOrder
    /\ FetchReturned /\ ~ret.success => \A api \in Apis : env.yielded[api] = "nothing"
    /\ \A api \in Apis : ServedBy(api) => CacheHolds(arg.doi, ret.data)

\* C23: for a DOI that is not empty the sources are consulted in the order
\* cache, CrossRef, DataCite up to the first that yields a record: a cache hit
\* causes no network request, DataCite is asked only after CrossRef yielded
\* nothing, the result is a failure only when both APIs yielded nothing, and a
\* record an API supplied has been handed to setCachedMetadata before it is
\* returned, which has it in the cache when caching is enabled and the
\* storage write succeeded.  Without a DOI the call fails at once.
C23_SourceOrder ==
    /\ SourceOrder
    /\ FetchReturned /\ ~ret.success =>
            IF arg.doi = "" THEN env.requests = NoRequests /\ env.handed = "no"
            ELSE \A api \in Apis : env.yielded[api] = "nothing"
    /\ \A api \in Apis : ServedBy(api) =>
            /\ env.handed # "no"
            /\ env.handed = "written" <=> getCacheSettings(env.settings).enabled
                                            /\ CacheHolds(arg.doi, ret.data)
    /\ \A api \in Apis :
            ServedBy(api) /\ getCacheSettings(env.settings).enabled =>
                env.handed \in {"written", "failed"}

C23_Witness ==
    /\ ServedBy("datacite")
    /\ env.requests["crossref"] > 1
    /\ env.yielded["crossref"] = "nothing"
    /\ CacheHolds(arg.doi, RecordFrom("datacite", arg.doi))

(***************************************************************************)
(* fetchWithRetry.                                                         *)
(***************************************************************************)
RetryCalled == arg2.kind = "fetchWithRetry"
RetryRunning == RetryCalled /\ arg2.phase \in {"fetching", "sleeping"}
RetrySettled == RetryCalled /\ ret2.state \in {"returned", "thrown"}

\* the fetches the call in progress has made
Attempts == env.requests[arg2.api]

Retryable(r) == r.kind = "error" \/ (r.kind = "response" /\ (r.status = 429 \/ r.status >= 500))
NonRetryable(r) == r.kind = "response" /\ ~r.ok /\ r.status < 500 /\ r.status # 429

RetryContract ==
    RetryCalled =>
        /\ Attempts <= arg2.retries + 1
        /\ arg2.last.kind = "response" /\ arg2.last.ok =>
                ret2 = ReturnedResponse(arg2.last)
        /\ NonRetryable(arg2.last) => ret2 = ReturnedResponse(arg2.last)
        /\ arg2.phase = "sleeping" => Retryable(arg2.last) /\ Attempts <= arg2.retries
        /\ Retryable(arg2.last) /\ Attempts <= arg2.retries => ~RetrySettled
        /\ ret2.state = "returned" /\ Retryable(arg2.last) =>
                ret2.response = arg2.last /\ Attempts = arg2.retries + 1
        /\ ret2.state = "thrown" =>
                arg2.last.kind = "error" /\ Attempts = arg2.retries + 1

\* C27: fetchWithRetry makes at most maxRetries + 1 fetches and then has
\* settled: the first OK response is returned at once, a response with a
\* status below 500 other than 429 is returned at once, a 429, a 5xx and a
\* network error are retried while attempts remain, and after the last
\* attempt the last response is returned, or the error thrown when the last
\* attempt was a network error.  Every call settles.
C27_RetryTerminates == []RetryContract /\ (RetryRunning ~> RetrySettled)

C27_Witness ==
    /\ RetryCalled
    /\ ret2.state = "thrown"
    /\ arg2.retries = DefaultMaxRetries
    /\ Attempts = DefaultMaxRetries + 1

(***************************************************************************)
(* The metadata cache.                                                     *)
(***************************************************************************)
\* C28: a result served from the cache reports as its source the API that
\* supplied the record when it was cached.
C28_CachedSourceIsOrigin ==
    ServedFromCache => ret.source = ret.data.from

CachingEnabled ==
    "enableCaching" \in DOMAIN env.settings => env.settings.enableCaching

ConfiguredDurationMs ==
    IF "cacheDurationHours" \in DOMAIN env.settings
    THEN env.settings.cacheDurationHours * 3600000
    ELSE 24 * 3600000

Stored(doi) == CACHE_PREFIX \o doi \in DOMAIN env.cache
StoredAge(doi) == env.now - env.cache[CACHE_PREFIX \o doi].timestamp

\* the stored record getCachedMetadata may return
Fresh(doi) == CachingEnabled /\ Stored(doi) /\ StoredAge(doi) < ConfiguredDurationMs

\* the step that awaits getCachedMetadata
CacheReadStep ==
    pc = "getCachedMetadata" =>
        /\ Fresh(arg.doi) <=> pc' = "done"
        /\ Fresh(arg.doi) =>
                /\ ret' = Success(env.cache[CACHE_PREFIX \o arg.doi].metadata, ret'.source)
                /\ env'.cache = env.cache
                /\ env'.requests = NoRequests
        /\ ~Fresh(arg.doi) =>
                /\ pc' = "crossref" /\ arg2'.phase = "fetching"
                /\ env'.cache = [k \in DOMAIN env.cache \ {CACHE_PREFIX \o arg.doi} |->
                                    env.cache[k]]
                    \/ (~CachingEnabled /\ env'.cache = env.cache)
        /\ CachingEnabled /\ Stored(arg.doi) /\ ~Fresh(arg.doi) =>
                CACHE_PREFIX \o arg.doi \notin DOMAIN env'.cache

\* with caching disabled no step changes the cache, and no call is served
\* from it
DisabledStep ==
    ~CachingEnabled => env'.cache = env.cache /\ ~(pc = "getCachedMetadata" /\ pc' = "done")

RunFinished ==
    /\ op \in {"processBatch", "retryFailed"}
    /\ pc \in {"normal", "cancelled", "error"}
    /\ Running = {}

Succeeded == {k \in 1..Len(env.batchEntries) : env.batchEntries[k].status = "success"}

SameDoi(a, b) == toLowerCase(a) = toLowerCase(b)

\* C24: after a batch run has completed no two entries with status "success"
\* refer to the same DOI, compared without regard to letter case.
C24_NoDuplicateSuccess ==
    RunFinished =>
        \A i \in Succeeded, j \in Succeeded :
            i # j => ~SameDoi(env.batchEntries[i].doi, env.batchEntries[j].doi)

\* C25: when processBatch or retryFailed finishes, normally, after Cancel or
\* after an error, every batch entry has status "success" or "error".
C25_AllEntriesSettled ==
    RunFinished =>
        \A k \in 1..Len(env.batchEntries) :
            env.batchEntries[k].status \in {"success", "error"}

OneRun ==
    /\ Cardinality(Running) <= 1
    /\ \A s \in Running : env.abortController # "null" /\ env.owner = s

NoEntryBegins ==
    \A k \in 1..Len(env'.batchEntries) :
        env'.batchEntries[k].status = "processing" =>
            /\ env'.array = env.array
            /\ env.batchEntries[k].status = "processing"

\* C26: at most one run of processBatch or retryFailed is in progress at a
\* time, abortController is the controller of the run in progress, and once
\* Cancel has been clicked no further entry begins processing.
C26_SingleRun == []OneRun /\ [][env.cancelled => NoEntryBegins]_vars

(***************************************************************************)
(* The content script, contentScript.js: its own normalizeDOI and          *)
(* detectDOIs, the DETECT_DOI message it answers, and the popup that shows *)
(* the answer and generates a citation from it.  env is the page of the    *)
(* tab, [href, contentType, textLayer, metas, body]; arg is the payload of *)
(* the last answer, ret the popup's detection controls, arg2 the DOI that   *)
(* generateCitation read and ret2 what it did with it.                     *)
(***************************************************************************)
MinPdfTextLength == 50
PdfSearchLimit == 10000

\* /^10\.\d{4,9}\/.+/.test(s), the "/" being at position h
OneAfter(s, h) ==
    h # 0 /\ h < Len(s) /\ Char(s, h + 1) \notin LineTerminators

contentScriptPasses(s) == OneAfter(s, DoiHead(s, 1))

\* contentScript.js lines 32-36
contentScriptValidated(normalized) ==
    IF contentScriptPasses(normalized) THEN normalized ELSE NULL

\* normalizeDOI of contentScript.js
contentScriptNormalizeDOI(doi) ==
    IF doi = "" THEN NULL
    ELSE contentScriptValidated(StripTrailing(StripDoiColon(StripDoiOrg(
             RemoveWhitespace(trim(doi))))))

RECURSIVE contentScriptPush(_, _)
contentScriptPush(dois, candidates) ==
    IF candidates = <<>> THEN dois
    ELSE contentScriptPush(
             pushIfNew(dois, contentScriptNormalizeDOI(Head(candidates))),
             Tail(candidates))

\* detectDOIsFromText of contentScript.js
contentScriptDetectFromText(text) ==
    contentScriptPush(<<>>, matchAllDoiRegex(text, 1))

\* detectDOIsFromMetaTags of contentScript.js
contentScriptDetectFromMetaTags(page) ==
    contentScriptPush(<<>>, VisitedContents(page.metas, DOI_META_TAGS))

isPDFUrlLower(lowerUrl) ==
    \/ endsWith(lowerUrl, ".pdf")
    \/ Contains(lowerUrl, ".pdf?")
    \/ Contains(lowerUrl, ".pdf#")
    \/ Contains(lowerUrl, "/pdf/")

isPDFUrl(url) == IF url = "" THEN FALSE ELSE isPDFUrlLower(toLowerCase(url))

\* the page has no embed element; its content type stands for both tests
isPDFPage(page) ==
    isPDFUrl(page.href) \/ page.contentType = "application/pdf"

\* extractPDFText: the text layer when it has text, else the text of the body
extractPDFText(page) ==
    IF Len(trim(page.textLayer)) > 0 THEN page.textLayer ELSE page.body

\* text.slice(0, 10000)
sliceSearchText(text) == SubSeq(text, 1, Min({Len(text), PdfSearchLimit}))

FirstOrNone(dois) == IF Len(dois) > 0 THEN <<dois[1]>> ELSE <<>>

\* detectDOIFromPDFText, as the list detectDOIs makes of its result
detectDOIFromPDFText(text) ==
    FirstOrNone(contentScriptDetectFromText(sliceSearchText(text)))

Payload(dois, source, pending) ==
    [dois |-> dois, source |-> source, pendingPDF |-> pending]

\* lines 174-194, pdfText being what extractPDFText returned
detectFromPdf(pdfText) ==
    IF Len(trim(pdfText)) < MinPdfTextLength
    THEN Payload(<<>>, "pdf", TRUE)
    ELSE Payload(detectDOIFromPDFText(pdfText), "pdf", FALSE)

\* lines 196-210, metaDOIs being what detectDOIsFromMetaTags returned
detectFromMetaOrBody(metaDOIs, page) ==
    IF Len(metaDOIs) > 0 THEN Payload(metaDOIs, "meta-tag", FALSE)
    ELSE Payload(contentScriptDetectFromText(page.body), "regex", FALSE)

\* lines 174-210
detectBelowUrl(page) ==
    IF isPDFPage(page) THEN detectFromPdf(extractPDFText(page))
    ELSE detectFromMetaOrBody(contentScriptDetectFromMetaTags(page), page)

\* lines 165-172, urlDOIs being what detectDOIsFromText(href) returned
detectFromUrl(urlDOIs, page) ==
    IF Len(urlDOIs) > 0 THEN Payload(urlDOIs, "url", FALSE)
    ELSE detectBelowUrl(page)

detectDOIs(page) == detectFromUrl(contentScriptDetectFromText(page.href), page)

ShortDoi == "10.1016/S1"
ValidDoi == "10.1000/xyz1234"
GluedDoi == "10.1000/abcdefghwww.example.org"
PdfLayerText ==
    "Journal of Examples 12 (2020) 1-10 doi:10.1000/xyz1234. Received 1 May, 10.1016/S1"

ContentHrefs ==
    { "https://example.org/article",
      "https://example.org/10.1016/S1",
      "https://example.org/doi/10.1000/xyz1234",
      "https://example.org/paper.pdf",
      "https://example.org/pdf/10.1000/xyz1234" }

ContentMetas ==
    { <<>>,
      << [name |-> "citation_doi", property |-> NoAttr, content |-> "doi:" \o ValidDoi] >>,
      << [name |-> "citation_doi", property |-> NoAttr, content |-> ShortDoi],
         [name |-> NoAttr, property |-> "rft.id", content |-> "https://doi.org/" \o ValidDoi] >>,
      << [name |-> "dc.identifier", property |-> NoAttr, content |-> "(" \o ValidDoi \o ")"],
         [name |-> "prism.doi", property |-> NoAttr, content |-> GluedDoi] >> }

ContentBodies ==
    { "no identifier here",
      "See 10.1000/xyz1234, and 10.1016/S1.",
      "Cite as 10.1000/xyz1234." }

ContentPages ==
    [ href : ContentHrefs,
      contentType : {"text/html", "application/pdf"},
      textLayer : {"", PdfLayerText},
      metas : ContentMetas,
      body : ContentBodies ]

NoPayload == Payload(<<>>, "none", FALSE)
NoDetection == [detectedDOIs |-> <<>>, selectHidden |-> TRUE, input |-> "", select |-> ""]
NoCitation == [normalized |-> NULL, outcome |-> "none"]

ContentInit ==
    /\ env \in {p \in ContentPages : p.textLayer = ""}
    /\ op = "load"
    /\ pc = "idle"
    /\ arg = NoPayload
    /\ ret = NoDetection
    /\ arg2 = NULL
    /\ ret2 = NoCitation

\* the tab navigates to another page; the popup is opened anew
Navigate ==
    /\ \E page \in ContentPages : page.textLayer = "" /\ env' = page
    /\ op' = "load"
    /\ arg' = NoPayload
    /\ ret' = NoDetection
    /\ arg2' = NULL
    /\ ret2' = NoCitation
    /\ UNCHANGED pc

\* the viewer of a PDF page finishes rendering its text layer
TextLayerLoads ==
    /\ isPDFPage(env)
    /\ env.textLayer = ""
    /\ env' = [env EXCEPT !.textLayer = PdfLayerText]
    /\ op' = "textLayer"
    /\ UNCHANGED <<arg, ret, arg2, ret2, pc>>

\* the listener of lines 216-253 answers a DETECT_DOI message
OnDetectMessage ==
    /\ arg' = detectDOIs(env)
    /\ op' = "DETECT_DOI"
    /\ UNCHANGED <<env, ret, arg2, ret2, pc>>

\* processDetectionResult of popup.ts, called with an answer that has DOIs
processDetectionResult(result) ==
    IF Len(result.dois) = 1
    THEN [detectedDOIs |-> result.dois, selectHidden |-> TRUE,
          input |-> result.dois[1], select |-> ""]
    ELSE [detectedDOIs |-> result.dois, selectHidden |-> FALSE,
          input |-> "", select |-> ""]

ProcessDetection ==
    /\ op = "DETECT_DOI"
    /\ Len(arg.dois) > 0
    /\ ret' = processDetectionResult(arg)
    /\ op' = "processDetectionResult"
    /\ UNCHANGED <<env, arg, arg2, ret2, pc>>

\* the user picks an option of the dropdown
SelectDoi ==
    /\ ~ret.selectHidden
    /\ \E i \in 1..Len(ret.detectedDOIs) :
           ret' = [ret EXCEPT !.select = ret.detectedDOIs[i]]
    /\ op' = "select"
    /\ UNCHANGED <<env, arg, arg2, ret2, pc>>

\* value || null
OrNull(value) == IF value = "" THEN NULL ELSE value

getCurrentDOI(controls) ==
    IF ~controls.selectHidden THEN OrNull(controls.select)
    ELSE OrNull(trim(controls.input))

\* popup.ts lines 379-383, normalizedDOI being what normalizeDOI returned
citationOf(normalizedDOI) ==
    IF normalizedDOI = NULL THEN [normalized |-> NULL, outcome |-> "invalid"]
    ELSE IF ~isValidDOI(normalizedDOI)
         THEN [normalized |-> normalizedDOI, outcome |-> "invalid"]
         ELSE [normalized |-> normalizedDOI, outcome |-> "fetch"]

\* generateCitation up to the call of fetchMetadata
generateCitation(doi) ==
    IF doi = NULL THEN [normalized |-> NULL, outcome |-> "missing"]
    ELSE citationOf(normalizeDOI(doi))

GenerateCitation ==
    /\ arg2' = getCurrentDOI(ret)
    /\ ret2' = generateCitation(getCurrentDOI(ret))
    /\ op' = "generateCitation"
    /\ UNCHANGED <<env, arg, ret, pc>>

ContentNext ==
    \/ Navigate
    \/ TextLayerLoads
    \/ OnDetectMessage
    \/ ProcessDetection
    \/ SelectDoi
    \/ GenerateCitation

SpecContent == ContentInit /\ [][ContentNext]_vars

(***************************************************************************)
(* The properties of the content script.                                   *)
(***************************************************************************)

\* the content script has answered a DETECT_DOI message with DOIs
Reported == Len(arg.dois) > 0

\* the core accepts d and leaves it as it is
CoreAgrees(d) == isValidDOI(d) /\ normalizeDOI(d) = d

\* C30: every DOI the content script reports, from the URL, the PDF text,
\* the meta tags or the body text, is accepted by the core isValidDOI and
\* left unchanged by the core normalizeDOI, and generateCitation does not
\* reject a detected DOI as invalid.
C30_ReportedDoisAgreeWithCore ==
    /\ \A i \in 1..Len(arg.dois) : CoreAgrees(arg.dois[i])
    /\ (op = "generateCitation" /\ arg2 # NULL) => ret2.outcome = "fetch"

====
